---- MODULE Spec2Model ----
(***************************************************************************)
(* Verification model of the polycli trading bot core:                     *)
(*   src/src/bot/candles.rs   CandleAggregator / CandleEngine              *)
(*   src/src/commands/bot.rs  ShadowPosition and the watch_btc_market loop *)
(*                                                                         *)
(* f64 prices, spreads and volumes are integers in thousandths (0.01 is    *)
(* 10, 0.99 is 990); the two non-finite inputs the validity gate has to    *)
(* reject are the reserved codes NaN and Infinity.  Option<T> is a         *)
(* sequence of length 0 (None) or 1 (Some).                                *)
(***************************************************************************)
EXTENDS Integers, Sequences, FiniteSets, TLC

VARIABLES
    candle_engine,  \* CandleEngine: the three CandleAggregators
    ret,            \* value returned by the last CandleEngine::update
    lastQuote,      \* Option: <<price, spread>> of the last CandleEngine::update
    lastEpoch,      \* epoch_seconds of the last update that passed the gate
    ticks,          \* number of update calls that passed the validity gate
    rejected,       \* some update call so far was rejected by the validity gate
    applied,        \* per interval: prices applied to the open candle, in order
    closedLog,      \* per interval: for each closed candle, the prices applied to it
    volLog,         \* per interval: snapshot increases since the open candle began
    closedVol,      \* per interval: for each closed candle, increases up to its closing tick
    prevSnap,       \* Option: volume of the previous tick that passed the gate
    reports,        \* set of <<returned value, set of intervals closed>> seen so far
    now,            \* Utc::now() in epoch seconds
    pc,             \* "select": the loop waits at the select; "done": it has ended
    watched,        \* WatchedMarket
    validator,      \* Option<ValidationTracker>
    ind_1m,         \* IndicatorEngine fed by 1-minute candles
    ind_5s,         \* IndicatorEngine fed by 5-second candles
    signal_engine,  \* SignalEngine
    shadow,         \* ShadowPosition
    state_1m,       \* IndicatorState
    state_5s,       \* IndicatorState
    last_midpoint,  \* Option
    last_yes_bid,
    last_no_bid,
    rolled,         \* Option: the locals before, between and after the two halves
                    \* of the rollover of the last step
    lossClosed,     \* token sides closed at a loss in the watched market
    seenBid,        \* per token, the last bid a processed tick of the watched
                    \* market carried (Option)
    call            \* Option: inputs and outcome of the last call of the operation
                    \* that the position feed, the entry filter or the indicator
                    \* feed drives

candleVars == <<ret, lastQuote, lastEpoch, ticks, rejected, applied, closedLog, volLog,
                closedVol, prevSnap, reports>>

botVars == <<now, pc, watched, validator, ind_1m, ind_5s, signal_engine, shadow,
             state_1m, state_5s, last_midpoint, last_yes_bid, last_no_bid,
             rolled, lossClosed, seenBid, call>>

vars == <<candle_engine, candleVars, botVars>>

-----------------------------------------------------------------------------
(* Numbers *)

NaN == 7000001
Infinity == 7000002

is_finite(x) == x # NaN /\ x # Infinity

Max(a, b) == IF a >= b THEN a ELSE b
Min(a, b) == IF a <= b THEN a ELSE b

None == <<>>
Some(x) == <<x>>

-----------------------------------------------------------------------------
(* candles.rs *)

MAX_BUFFER_LEN == 100

Intervals == {5, 15, 60}

Candle(start_time, open, high, low, close, volume) ==
    [start_time |-> start_time, open |-> open, high |-> high, low |-> low,
     close |-> close, volume |-> volume]

CandleAggregator_new(interval_seconds, max_len, volume_mode) ==
    [interval_seconds |-> interval_seconds,
     current |-> None,
     buffer |-> <<>>,
     max_len |-> max_len,
     volume_mode |-> volume_mode,
     last_snapshot_vol |-> None]

\* mutant: push without evicting the oldest candle
CandleAggregator_push_NoEvict(a, candle) ==
    [a EXCEPT !.buffer = Append(a.buffer, candle)]

CandleAggregator_push(a, candle) ==
    LET kept == IF Len(a.buffer) = a.max_len THEN Tail(a.buffer) ELSE a.buffer
    IN  [a EXCEPT !.buffer = Append(kept, candle)]

CandleAggregator_last(a) ==
    IF a.buffer = <<>> THEN None ELSE Some(a.buffer[Len(a.buffer)])

bucket_start(interval_seconds, epoch_seconds) ==
    (epoch_seconds \div interval_seconds) * interval_seconds

delta_vol(a, volume) ==
    IF a.volume_mode = "Delta"
    THEN volume
    ELSE LET prev == IF a.last_snapshot_vol = None THEN volume
                     ELSE a.last_snapshot_vol[1]
         IN  Max(volume - prev, 0)

\* mutant: a tick of the open bucket overwrites high instead of taking the max
CandleAggregator_update_HighOverwritten(a, price, volume, epoch_seconds) ==
    LET bs == bucket_start(a.interval_seconds, epoch_seconds)
        dv == delta_vol(a, volume)
        a1 == IF a.volume_mode = "Snapshot"
              THEN [a EXCEPT !.last_snapshot_vol = Some(volume)]
              ELSE a
        fresh == Candle(bs, price, price, price, price, dv)
    IN  IF a1.current = None
        THEN [a1 EXCEPT !.current = Some(fresh)]
        ELSE LET cur == a1.current[1] IN
             IF bs = cur.start_time
             THEN [a1 EXCEPT !.current = Some(
                       [cur EXCEPT !.high = price,
                                   !.low = Min(cur.low, price),
                                   !.close = price,
                                   !.volume = cur.volume + dv])]
             ELSE IF bs < cur.start_time
             THEN a1
             ELSE [CandleAggregator_push(a1, cur) EXCEPT !.current = Some(fresh)]

\* mutant: a late tick closes the open candle like a tick of a later bucket
CandleAggregator_update_LateCloses(a, price, volume, epoch_seconds) ==
    LET bs == bucket_start(a.interval_seconds, epoch_seconds)
        dv == delta_vol(a, volume)
        a1 == IF a.volume_mode = "Snapshot"
              THEN [a EXCEPT !.last_snapshot_vol = Some(volume)]
              ELSE a
        fresh == Candle(bs, price, price, price, price, dv)
    IN  IF a1.current = None
        THEN [a1 EXCEPT !.current = Some(fresh)]
        ELSE LET cur == a1.current[1] IN
             IF bs = cur.start_time
             THEN [a1 EXCEPT !.current = Some(
                       [cur EXCEPT !.high = Max(cur.high, price),
                                   !.low = Min(cur.low, price),
                                   !.close = price,
                                   !.volume = cur.volume + dv])]
             ELSE [CandleAggregator_push(a1, cur) EXCEPT !.current = Some(fresh)]

CandleAggregator_update(a, price, volume, epoch_seconds) ==
    LET bs == bucket_start(a.interval_seconds, epoch_seconds)
        dv == delta_vol(a, volume)
        a1 == IF a.volume_mode = "Snapshot"
              THEN [a EXCEPT !.last_snapshot_vol = Some(volume)]
              ELSE a
        fresh == Candle(bs, price, price, price, price, dv)
    IN  IF a1.current = None
        THEN [a1 EXCEPT !.current = Some(fresh)]
        ELSE LET cur == a1.current[1] IN
             IF bs = cur.start_time
             THEN [a1 EXCEPT !.current = Some(
                       [cur EXCEPT !.high = Max(cur.high, price),
                                   !.low = Min(cur.low, price),
                                   !.close = price,
                                   !.volume = cur.volume + dv])]
             ELSE IF bs < cur.start_time
             THEN a1
             ELSE [CandleAggregator_push(a1, cur) EXCEPT !.current = Some(fresh)]

\* mutant: the floor test is strict, so a price of exactly 0.01 passes
is_price_valid_StrictFloor(price, spread) ==
    IF ~is_finite(price) THEN FALSE
    ELSE IF price < 10 THEN FALSE
    ELSE IF price >= 990 /\ spread > 900 THEN FALSE
    ELSE TRUE

is_price_valid(price, spread) ==
    IF ~is_finite(price) THEN FALSE
    ELSE IF price <= 10 THEN FALSE
    ELSE IF price >= 990 /\ spread > 900 THEN FALSE
    ELSE TRUE

CandleEngine_new ==
    [i \in Intervals |-> CandleAggregator_new(i, MAX_BUFFER_LEN, "Snapshot")]

CandleEngine_set_volume_mode(e, mode) ==
    [i \in Intervals |-> [e[i] EXCEPT !.volume_mode = mode]]

\* <<engine after the call, returned bool>>
CandleEngine_update(e, price, spread, volume, epoch_seconds) ==
    IF ~is_price_valid(price, spread)
    THEN <<e, FALSE>>
    ELSE <<[i \in Intervals |->
              CandleAggregator_update(e[i], price, volume, epoch_seconds)],
           TRUE>>

get_last_5s(e) == CandleAggregator_last(e[5])
get_last_15s(e) == CandleAggregator_last(e[15])
get_last_1m(e) == CandleAggregator_last(e[60])

\* intervals whose aggregator closes its open candle on a tick at epoch_seconds
ClosedBy(e, epoch_seconds) ==
    {i \in Intervals :
        /\ e[i].current # None
        /\ bucket_start(i, epoch_seconds) > e[i].current[1].start_time}

-----------------------------------------------------------------------------
(* src/src/bot/indicators.rs.  Indicator values are fixed-point: EMA and    *)
(* RSI in thousandths, the regression slope in millionths (one thousandth   *)
(* of a price step per candle is 1000).                                     *)

IndicatorState(ema9, ema21, rsi14, momentum_slope) ==
    [ema9 |-> ema9, ema21 |-> ema21, rsi14 |-> rsi14,
     momentum_slope |-> momentum_slope]

IndicatorState_default == IndicatorState(None, None, None, None)

Ema_new(period) == [period |-> period, value |-> None, warmup_count |-> 0]

\* multiplier = 2 / (period + 1)
Ema_update(e, close) ==
    [e EXCEPT !.warmup_count = e.warmup_count + 1,
              !.value = IF e.value # None
                        THEN Some(((close - e.value[1]) * 2) \div (e.period + 1)
                                  + e.value[1])
                        ELSE Some(close)]

Rsi_new(period) ==
    [period |-> period, avg_gain |-> None, avg_loss |-> None,
     last_close |-> None, value |-> None, warmup_count |-> 0]

\* mutant: the neutral case of two zero averages is missing
Rsi_calc_rsi_NoNeutral(r) ==
    IF r.avg_gain # None /\ r.avg_loss # None
    THEN LET ag == r.avg_gain[1]
             al == r.avg_loss[1]
         IN  IF al = 0 THEN [r EXCEPT !.value = Some(100000)]
             ELSE IF ag = 0 THEN [r EXCEPT !.value = Some(0)]
             ELSE [r EXCEPT !.value = Some(100000 - (100000 * al) \div (al + ag))]
    ELSE [r EXCEPT !.value = Some(50000)]

Rsi_calc_rsi(r) ==
    IF r.avg_gain # None /\ r.avg_loss # None
    THEN LET ag == r.avg_gain[1]
             al == r.avg_loss[1]
         IN  IF ag = 0 /\ al = 0 THEN [r EXCEPT !.value = Some(50000)]
             ELSE IF al = 0 THEN [r EXCEPT !.value = Some(100000)]
             ELSE IF ag = 0 THEN [r EXCEPT !.value = Some(0)]
             ELSE [r EXCEPT !.value = Some(100000 - (100000 * al) \div (al + ag))]
    ELSE [r EXCEPT !.value = Some(50000)]

Rsi_update(r, close) ==
    LET r1 == [r EXCEPT !.warmup_count = r.warmup_count + 1] IN
    IF r1.last_close = None
    THEN Rsi_calc_rsi([r1 EXCEPT !.last_close = Some(close),
                                 !.avg_gain = Some(0),
                                 !.avg_loss = Some(0)])
    ELSE LET change == close - r1.last_close[1]
             gain == IF change > 0 THEN change ELSE 0
             loss == IF change < 0 THEN -change ELSE 0
             r2 == [r1 EXCEPT !.last_close = Some(close)]
             w == r2.warmup_count
             r3 == IF r2.avg_gain # None /\ r2.avg_loss # None
                   THEN IF w <= r2.period
                        THEN [r2 EXCEPT
                                !.avg_gain = Some((r2.avg_gain[1] * (w - 1) + gain) \div w),
                                !.avg_loss = Some((r2.avg_loss[1] * (w - 1) + loss) \div w)]
                        ELSE [r2 EXCEPT
                                !.avg_gain = Some((r2.avg_gain[1] * (r2.period - 1) + gain)
                                                  \div r2.period),
                                !.avg_loss = Some((r2.avg_loss[1] * (r2.period - 1) + loss)
                                                  \div r2.period)]
                   ELSE r2
         IN  Rsi_calc_rsi(r3)

MomentumSlope_new(window) == [window |-> window, closes |-> <<>>, value |-> None]

\* sum over i of (2i - (n-1)) * closes[i], i counted from 0: twice cov_xy
RECURSIVE TwiceCov(_, _, _)
TwiceCov(closes, k, n) ==
    IF k > n THEN 0
    ELSE (2 * (k - 1) - (n - 1)) * closes[k] + TwiceCov(closes, k + 1, n)

\* mutant: the oldest close is never dropped
MomentumSlope_update_NoEvict(s, close) ==
    LET kept == s.closes
        closes == Append(kept, close)
        n == Len(closes)
    IN  IF n < 2
        THEN [s EXCEPT !.closes = closes, !.value = None]
        ELSE [s EXCEPT !.closes = closes,
                       !.value = Some((6000 * TwiceCov(closes, 1, n))
                                      \div (n * (n * n - 1)))]

\* cov_xy / var_x with var_x = n(n^2 - 1)/12
MomentumSlope_update(s, close) ==
    LET kept == IF Len(s.closes) = s.window THEN Tail(s.closes) ELSE s.closes
        closes == Append(kept, close)
        n == Len(closes)
    IN  IF n < 2
        THEN [s EXCEPT !.closes = closes, !.value = None]
        ELSE [s EXCEPT !.closes = closes,
                       !.value = Some((6000 * TwiceCov(closes, 1, n))
                                      \div (n * (n * n - 1)))]

IndicatorEngine_new ==
    [ema9 |-> Ema_new(9), ema21 |-> Ema_new(21), rsi14 |-> Rsi_new(14),
     slope |-> MomentumSlope_new(14), last_candle_time |-> None,
     prev_ema9 |-> None, prev_ema21 |-> None]

\* mutant: the reset keeps the warm-up count of EMA9
IndicatorEngine_reset_KeepsWarmup(e) ==
    [IndicatorEngine_new EXCEPT !.ema9.warmup_count = e.ema9.warmup_count]

IndicatorEngine_reset(e) == IndicatorEngine_new

IndicatorEngine_is_ready(e) == e.ema9.warmup_count >= 5

IndicatorEngine_get_state(e) ==
    IndicatorState(e.ema9.value, e.ema21.value, e.rsi14.value, e.slope.value)

IndicatorEngine_has_invalid_state(e) ==
    LET check(v) == v # None /\ ~is_finite(v[1])
    IN  check(e.ema9.value) \/ check(e.ema21.value) \/ check(e.rsi14.value)
        \/ check(e.slope.value)

\* <<engine after the call, returned IndicatorState>>
IndicatorEngine_update(e, candle) ==
    IF e.last_candle_time # None /\ candle.start_time <= e.last_candle_time[1]
    THEN <<e, IndicatorEngine_get_state(e)>>
    ELSE LET e0 == IF e.last_candle_time # None
                      /\ candle.start_time - e.last_candle_time[1] > 120
                   THEN IndicatorEngine_reset(e) ELSE e
             e1 == [e0 EXCEPT !.last_candle_time = Some(candle.start_time)]
             close == candle.close
         IN  IF ~is_finite(close) \/ close <= 0
             THEN <<e1, IndicatorEngine_get_state(e1)>>
             ELSE LET e2 == [e1 EXCEPT !.prev_ema9 = e1.ema9.value,
                                       !.prev_ema21 = e1.ema21.value,
                                       !.ema9 = Ema_update(e1.ema9, close),
                                       !.ema21 = Ema_update(e1.ema21, close),
                                       !.rsi14 = Rsi_update(e1.rsi14, close),
                                       !.slope = MomentumSlope_update(e1.slope, close)]
                  IN  CHOOSE out \in {<<e3, IndicatorEngine_get_state(e3)>> :
                                        e3 \in {IF IndicatorEngine_has_invalid_state(x)
                                                THEN IndicatorEngine_reset(x) ELSE x
                                                  : x \in {e2}}} : TRUE

IndicatorEngine_ema_cross_up(e) ==
    IF ~IndicatorEngine_is_ready(e) THEN FALSE
    ELSE IF e.ema9.value # None /\ e.ema21.value # None
            /\ e.prev_ema9 # None /\ e.prev_ema21 # None
         THEN e.prev_ema9[1] <= e.prev_ema21[1] /\ e.ema9.value[1] > e.ema21.value[1]
         ELSE FALSE

IndicatorEngine_ema_cross_down(e) ==
    IF ~IndicatorEngine_is_ready(e) THEN FALSE
    ELSE IF e.ema9.value # None /\ e.ema21.value # None
            /\ e.prev_ema9 # None /\ e.prev_ema21 # None
         THEN e.prev_ema9[1] >= e.prev_ema21[1] /\ e.ema9.value[1] < e.ema21.value[1]
         ELSE FALSE

-----------------------------------------------------------------------------
(* The signal engine the orchestrator calls: SignalEngine::update(&state_5s, *)
(* &state_1m, midpoint) and SignalEngine::reset().  Its memory is the        *)
(* active side, the entry price and the rolling window of the last five      *)
(* reference prices.  The outcome of its slope and breakout tests is taken   *)
(* as an input of the call (entry, flip): the engine may ask for an entry    *)
(* only while it holds no side and for an exit only while it holds one.      *)

SIGNAL_WINDOW == 5

SignalState(entry, exit) == [entry |-> entry, exit |-> exit]

SignalEngine_new == [active_side |-> None, entry_price |-> None, window |-> <<>>]

SignalEngine_reset(s) == SignalEngine_new

SignalEngine_update_NoEvict(s, fast, slow, current_price, entry, flip) ==
    LET kept == s.window
        s1 == [s EXCEPT !.window = Append(kept, current_price)]
    IN  IF s1.active_side # None
        THEN IF flip
             THEN <<[s1 EXCEPT !.active_side = None, !.entry_price = None],
                    SignalState("None", "FullExit")>>
             ELSE <<s1, SignalState("None", "None")>>
        ELSE IF entry # "None"
             THEN <<[s1 EXCEPT !.active_side = Some(entry),
                               !.entry_price = Some(current_price)],
                    SignalState(entry, "None")>>
             ELSE <<s1, SignalState("None", "None")>>

\* <<engine after the call, returned SignalState>>
SignalEngine_update(s, fast, slow, current_price, entry, flip) ==
    LET kept == IF Len(s.window) = SIGNAL_WINDOW THEN Tail(s.window) ELSE s.window
        s1 == [s EXCEPT !.window = Append(kept, current_price)]
    IN  IF s1.active_side # None
        THEN IF flip
             THEN <<[s1 EXCEPT !.active_side = None, !.entry_price = None],
                    SignalState("None", "FullExit")>>
             ELSE <<s1, SignalState("None", "None")>>
        ELSE IF entry # "None"
             THEN <<[s1 EXCEPT !.active_side = Some(entry),
                               !.entry_price = Some(current_price)],
                    SignalState(entry, "None")>>
             ELSE <<s1, SignalState("None", "None")>>

(* The slope and breakout tests of that engine, as the specification states  *)
(* them: the price is gated to [0.35, 0.65], the window must hold            *)
(* SIGNAL_WINDOW prices, the fast slope must be present and beyond 0.002,    *)
(* a slow slope that is present must have magnitude 0.0005 or more, and the  *)
(* price must leave the range of the window as it was before the insertion.  *)

ENTRY_MIN_PRICE == 350
ENTRY_MAX_PRICE == 650
FAST_SLOPE_MIN == 2000
SLOW_SLOPE_MIN == 500

RECURSIVE window_high(_)
window_high(window) == IF Len(window) = 1 THEN window[1] ELSE Max(window[1], window_high(Tail(window)))

RECURSIVE window_low(_)
window_low(window) == IF Len(window) = 1 THEN window[1] ELSE Min(window[1], window_low(Tail(window)))

SignalEngine_check_entry_AnyPrice(s, fast, slow, current_price) ==
    IF s.active_side # None THEN "None"
    ELSE IF Len(s.window) < SIGNAL_WINDOW THEN "None"
    ELSE IF fast.momentum_slope = None THEN "None"
    ELSE IF slow.momentum_slope # None /\ slow.momentum_slope[1] < SLOW_SLOPE_MIN /\ slow.momentum_slope[1] > -SLOW_SLOPE_MIN THEN "None"
    ELSE IF fast.momentum_slope[1] > FAST_SLOPE_MIN /\ current_price > window_high(s.window) THEN "Long"
    ELSE IF fast.momentum_slope[1] < -FAST_SLOPE_MIN /\ current_price < window_low(s.window) THEN "Short"
    ELSE "None"

SignalEngine_check_entry(s, fast, slow, current_price) ==
    IF s.active_side # None THEN "None"
    ELSE IF current_price < ENTRY_MIN_PRICE \/ current_price > ENTRY_MAX_PRICE THEN "None"
    ELSE IF Len(s.window) < SIGNAL_WINDOW THEN "None"
    ELSE IF fast.momentum_slope = None THEN "None"
    ELSE IF slow.momentum_slope # None /\ slow.momentum_slope[1] < SLOW_SLOPE_MIN /\ slow.momentum_slope[1] > -SLOW_SLOPE_MIN THEN "None"
    ELSE IF fast.momentum_slope[1] > FAST_SLOPE_MIN /\ current_price > window_high(s.window) THEN "Long"
    ELSE IF fast.momentum_slope[1] < -FAST_SLOPE_MIN /\ current_price < window_low(s.window) THEN "Short"
    ELSE "None"

SignalEngine_check_exit_FlatExits(s, fast) ==
    /\ s.active_side # None
    /\ fast.momentum_slope # None
    /\ \/ s.active_side[1] = "Long" /\ fast.momentum_slope[1] <= 0
       \/ s.active_side[1] = "Short" /\ fast.momentum_slope[1] >= 0

SignalEngine_check_exit(s, fast) ==
    /\ s.active_side # None
    /\ fast.momentum_slope # None
    /\ \/ s.active_side[1] = "Long" /\ fast.momentum_slope[1] < 0
       \/ s.active_side[1] = "Short" /\ fast.momentum_slope[1] > 0

\* signal_engine.update(&state_5s, &state_1m, midpoint) with its own tests
SignalEngine_decide(s, fast, slow, current_price) ==
    SignalEngine_update(s, fast, slow, current_price, SignalEngine_check_entry(s, fast, slow, current_price), SignalEngine_check_exit(s, fast))

-----------------------------------------------------------------------------
(* src/src/bot/signal.rs: the engine of the profile with a structural bias,  *)
(* an acceleration test, staged scale-outs and a stop-loss.  Prices and EMAs *)
(* are thousandths, RSI values thousandths of a point, slopes millionths.    *)
(* (price - entry) / entry is compared with a multiple of 0.10 give or take  *)
(* 1e-9; between prices of whole thousandths the quotient is either that     *)
(* multiple or at least 0.0001 away from it, so the comparison is the exact  *)
(* one of 10 * (price - entry) with the multiple of entry.                   *)

f64_MIN == -7000003
f64_MAX == 7000003

signal_SignalState(bias, acceleration, entry, exit) ==
    [bias |-> bias, acceleration |-> acceleration, entry |-> entry, exit |-> exit]

signal_SignalEngine_new ==
    [previous_bias |-> "Neutral", active_position |-> None, entry_price |-> None,
     scale_stage |-> 0, last_5s_high |-> f64_MIN, last_5s_low |-> f64_MAX,
     recent_5s_closes |-> <<>>]

determine_bias_IgnoresSlope(one_min) ==
    IF one_min.ema9 # None /\ one_min.ema21 # None /\ one_min.rsi14 # None /\ one_min.momentum_slope # None
    THEN IF one_min.ema9[1] > one_min.ema21[1] /\ one_min.rsi14[1] > 55000
         THEN "Long"
         ELSE IF one_min.ema9[1] < one_min.ema21[1] /\ one_min.rsi14[1] < 45000
              THEN "Short"
              ELSE "Neutral"
    ELSE "Neutral"

determine_bias(one_min) ==
    IF one_min.ema9 # None /\ one_min.ema21 # None /\ one_min.rsi14 # None /\ one_min.momentum_slope # None
    THEN IF one_min.ema9[1] > one_min.ema21[1] /\ one_min.rsi14[1] > 55000 /\ one_min.momentum_slope[1] > 0
         THEN "Long"
         ELSE IF one_min.ema9[1] < one_min.ema21[1] /\ one_min.rsi14[1] < 45000 /\ one_min.momentum_slope[1] < 0
              THEN "Short"
              ELSE "Neutral"
    ELSE "Neutral"

check_acceleration(bias, fifteen_sec) ==
    IF bias = "Neutral" THEN FALSE
    ELSE IF fifteen_sec.ema9 # None /\ fifteen_sec.ema21 # None /\ fifteen_sec.rsi14 # None /\ fifteen_sec.momentum_slope # None
         THEN IF bias = "Long"
              THEN fifteen_sec.momentum_slope[1] > 0 /\ fifteen_sec.rsi14[1] > 60000 /\ fifteen_sec.ema9[1] > fifteen_sec.ema21[1]
              ELSE fifteen_sec.momentum_slope[1] < 0 /\ fifteen_sec.rsi14[1] < 40000 /\ fifteen_sec.ema9[1] < fifteen_sec.ema21[1]
         ELSE FALSE

check_entry_IgnoresPosition(self, bias, acceleration, five_sec, current_price) ==
    IF ~acceleration \/ bias = "Neutral" \/ Len(self.recent_5s_closes) < 3
    THEN "None"
    ELSE IF five_sec.momentum_slope = None THEN "None"
    ELSE IF bias = "Long" /\ five_sec.momentum_slope[1] > 1000 /\ current_price > self.last_5s_high THEN "Long"
    ELSE IF bias = "Short" /\ five_sec.momentum_slope[1] < -1000 /\ current_price < self.last_5s_low THEN "Short"
    ELSE "None"

check_entry(self, bias, acceleration, five_sec, current_price) ==
    IF self.active_position # None \/ ~acceleration \/ bias = "Neutral" \/ Len(self.recent_5s_closes) < 3
    THEN "None"
    ELSE IF five_sec.momentum_slope = None THEN "None"
    ELSE IF bias = "Long" /\ five_sec.momentum_slope[1] > 1000 /\ current_price > self.last_5s_high THEN "Long"
    ELSE IF bias = "Short" /\ five_sec.momentum_slope[1] < -1000 /\ current_price < self.last_5s_low THEN "Short"
    ELSE "None"

check_exit_PriceFirst(self, current_price, one_min) ==
    IF self.active_position = None \/ self.entry_price = None THEN "None"
    ELSE LET position == self.active_position[1]
             entry == self.entry_price[1]
             change == 10 * (current_price - entry)
             flipped == /\ one_min.momentum_slope # None
                        /\ \/ position = "Long" /\ one_min.momentum_slope[1] < 0
                           \/ position = "Short" /\ one_min.momentum_slope[1] > 0
         IN  IF position = "Long"
             THEN IF change <= -entry THEN "StopLoss"
                  ELSE IF current_price >= 940 THEN "FullExit"
                  ELSE IF change >= 4 * entry /\ self.scale_stage < 2 THEN "ScaleOut50"
                  ELSE IF change >= 2 * entry /\ self.scale_stage < 1 THEN "ScaleOut25"
                  ELSE IF flipped THEN "FullExit"
                  ELSE "None"
             ELSE IF position = "Short"
             THEN IF change >= entry THEN "StopLoss"
                  ELSE IF current_price <= 60 THEN "FullExit"
                  ELSE IF change <= -4 * entry /\ self.scale_stage < 2 THEN "ScaleOut50"
                  ELSE IF change <= -2 * entry /\ self.scale_stage < 1 THEN "ScaleOut25"
                  ELSE IF flipped THEN "FullExit"
                  ELSE "None"
             ELSE "None"

check_exit_StrictStop(self, current_price, one_min) ==
    IF self.active_position = None \/ self.entry_price = None THEN "None"
    ELSE LET position == self.active_position[1]
             entry == self.entry_price[1]
             change == 10 * (current_price - entry)
             flipped == /\ one_min.momentum_slope # None
                        /\ \/ position = "Long" /\ one_min.momentum_slope[1] < 0
                           \/ position = "Short" /\ one_min.momentum_slope[1] > 0
         IN  IF flipped THEN "FullExit"
             ELSE IF position = "Long"
                  THEN IF change < -entry THEN "StopLoss"
                       ELSE IF current_price >= 940 THEN "FullExit"
                       ELSE IF change >= 4 * entry /\ self.scale_stage < 2 THEN "ScaleOut50"
                       ELSE IF change >= 2 * entry /\ self.scale_stage < 1 THEN "ScaleOut25"
                       ELSE "None"
                  ELSE IF position = "Short"
                  THEN IF change > entry THEN "StopLoss"
                       ELSE IF current_price <= 60 THEN "FullExit"
                       ELSE IF change <= -4 * entry /\ self.scale_stage < 2 THEN "ScaleOut50"
                       ELSE IF change <= -2 * entry /\ self.scale_stage < 1 THEN "ScaleOut25"
                       ELSE "None"
                  ELSE "None"

check_exit_QuarterFirst(self, current_price, one_min) ==
    IF self.active_position = None \/ self.entry_price = None THEN "None"
    ELSE LET position == self.active_position[1]
             entry == self.entry_price[1]
             change == 10 * (current_price - entry)
             flipped == /\ one_min.momentum_slope # None
                        /\ \/ position = "Long" /\ one_min.momentum_slope[1] < 0
                           \/ position = "Short" /\ one_min.momentum_slope[1] > 0
         IN  IF flipped THEN "FullExit"
             ELSE IF position = "Long"
                  THEN IF change <= -entry THEN "StopLoss"
                       ELSE IF current_price >= 940 THEN "FullExit"
                       ELSE IF change >= 2 * entry /\ self.scale_stage < 1 THEN "ScaleOut25"
                       ELSE IF change >= 4 * entry /\ self.scale_stage < 2 THEN "ScaleOut50"
                       ELSE "None"
                  ELSE IF position = "Short"
                  THEN IF change >= entry THEN "StopLoss"
                       ELSE IF current_price <= 60 THEN "FullExit"
                       ELSE IF change <= -2 * entry /\ self.scale_stage < 1 THEN "ScaleOut25"
                       ELSE IF change <= -4 * entry /\ self.scale_stage < 2 THEN "ScaleOut50"
                       ELSE "None"
                  ELSE "None"

check_exit(self, current_price, one_min) ==
    IF self.active_position = None \/ self.entry_price = None THEN "None"
    ELSE LET position == self.active_position[1]
             entry == self.entry_price[1]
             change == 10 * (current_price - entry)
             flipped == /\ one_min.momentum_slope # None
                        /\ \/ position = "Long" /\ one_min.momentum_slope[1] < 0
                           \/ position = "Short" /\ one_min.momentum_slope[1] > 0
         IN  IF flipped THEN "FullExit"
             ELSE IF position = "Long"
                  THEN IF change <= -entry THEN "StopLoss"
                       ELSE IF current_price >= 940 THEN "FullExit"
                       ELSE IF change >= 4 * entry /\ self.scale_stage < 2 THEN "ScaleOut50"
                       ELSE IF change >= 2 * entry /\ self.scale_stage < 1 THEN "ScaleOut25"
                       ELSE "None"
                  ELSE IF position = "Short"
                  THEN IF change >= entry THEN "StopLoss"
                       ELSE IF current_price <= 60 THEN "FullExit"
                       ELSE IF change <= -4 * entry /\ self.scale_stage < 2 THEN "ScaleOut50"
                       ELSE IF change <= -2 * entry /\ self.scale_stage < 1 THEN "ScaleOut25"
                       ELSE "None"
                  ELSE "None"

\* recent_5s_closes.iter().copied().fold(init, f64::max)
RECURSIVE fold_max(_, _)
fold_max(q, init) == IF q = <<>> THEN init ELSE fold_max(Tail(q), Max(init, q[1]))

RECURSIVE fold_min(_, _)
fold_min(q, init) == IF q = <<>> THEN init ELSE fold_min(Tail(q), Min(init, q[1]))

signal_SignalEngine_update_KeepsStage(self, one_min, fifteen_sec, five_sec, current_price) ==
    LET bias == determine_bias(one_min)
        acceleration == check_acceleration(bias, fifteen_sec)
        s1 == [self EXCEPT !.previous_bias = bias,
                           !.last_5s_high = fold_max(self.recent_5s_closes, f64_MIN),
                           !.last_5s_low = fold_min(self.recent_5s_closes, f64_MAX)]
        entry == check_entry(s1, bias, acceleration, five_sec, current_price)
        kept == IF Len(s1.recent_5s_closes) = 3 THEN Tail(s1.recent_5s_closes) ELSE s1.recent_5s_closes
        s2 == [s1 EXCEPT !.recent_5s_closes = Append(kept, current_price)]
        exit == check_exit(s2, current_price, one_min)
        s3 == IF exit \in {"FullExit", "StopLoss"}
              THEN [s2 EXCEPT !.active_position = None, !.entry_price = None]
              ELSE IF exit = "ScaleOut25" THEN [s2 EXCEPT !.scale_stage = 1]
              ELSE IF exit = "ScaleOut50" THEN [s2 EXCEPT !.scale_stage = 2]
              ELSE s2
        s4 == IF entry # "None" /\ s3.active_position = None
              THEN [s3 EXCEPT !.active_position = Some(entry), !.entry_price = Some(current_price), !.scale_stage = 0]
              ELSE s3
    IN  <<s4, signal_SignalState(bias, acceleration, entry, exit)>>

\* mutant: the entry is recorded before the exit is checked
signal_SignalEngine_update_RecordsFirst(self, one_min, fifteen_sec, five_sec, current_price) ==
    LET bias == determine_bias(one_min)
        acceleration == check_acceleration(bias, fifteen_sec)
        s1 == [self EXCEPT !.previous_bias = bias,
                           !.last_5s_high = fold_max(self.recent_5s_closes, f64_MIN),
                           !.last_5s_low = fold_min(self.recent_5s_closes, f64_MAX)]
        entry == check_entry(s1, bias, acceleration, five_sec, current_price)
        kept == IF Len(s1.recent_5s_closes) = 3 THEN Tail(s1.recent_5s_closes) ELSE s1.recent_5s_closes
        s2 == [s1 EXCEPT !.recent_5s_closes = Append(kept, current_price)]
        s3 == IF entry # "None" /\ s2.active_position = None
              THEN [s2 EXCEPT !.active_position = Some(entry), !.entry_price = Some(current_price), !.scale_stage = 0]
              ELSE s2
        exit == check_exit(s3, current_price, one_min)
        s4 == IF exit \in {"FullExit", "StopLoss"}
              THEN [s3 EXCEPT !.active_position = None, !.entry_price = None, !.scale_stage = 0]
              ELSE IF exit = "ScaleOut25" THEN [s3 EXCEPT !.scale_stage = 1]
              ELSE IF exit = "ScaleOut50" THEN [s3 EXCEPT !.scale_stage = 2]
              ELSE s3
    IN  <<s4, signal_SignalState(bias, acceleration, entry, exit)>>

\* <<engine after the call, returned SignalState>>
signal_SignalEngine_update(self, one_min, fifteen_sec, five_sec, current_price) ==
    LET bias == determine_bias(one_min)
        acceleration == check_acceleration(bias, fifteen_sec)
        s1 == [self EXCEPT !.previous_bias = bias,
                           !.last_5s_high = fold_max(self.recent_5s_closes, f64_MIN),
                           !.last_5s_low = fold_min(self.recent_5s_closes, f64_MAX)]
        entry == check_entry(s1, bias, acceleration, five_sec, current_price)
        kept == IF Len(s1.recent_5s_closes) = 3 THEN Tail(s1.recent_5s_closes) ELSE s1.recent_5s_closes
        s2 == [s1 EXCEPT !.recent_5s_closes = Append(kept, current_price)]
        exit == check_exit(s2, current_price, one_min)
        s3 == IF exit \in {"FullExit", "StopLoss"}
              THEN [s2 EXCEPT !.active_position = None, !.entry_price = None, !.scale_stage = 0]
              ELSE IF exit = "ScaleOut25" THEN [s2 EXCEPT !.scale_stage = 1]
              ELSE IF exit = "ScaleOut50" THEN [s2 EXCEPT !.scale_stage = 2]
              ELSE s2
        s4 == IF entry # "None" /\ s3.active_position = None
              THEN [s3 EXCEPT !.active_position = Some(entry), !.entry_price = Some(current_price), !.scale_stage = 0]
              ELSE s3
    IN  <<s4, signal_SignalState(bias, acceleration, entry, exit)>>

-----------------------------------------------------------------------------
(* src/src/commands/bot.rs.  Sizes, PnL fractions and dollar amounts are     *)
(* fixed-point with One standing for 1.0; One is a multiple of every ask     *)
(* the feed offers, so (price - entry) / entry is exact.                     *)

One == 27030

FIVE_MINUTES_SECONDS == 300

ShadowPosition_default ==
    [active_entry |-> None, token_side |-> None, entry_price |-> 0, size |-> 0,
     realized_pnl |-> 0, position_realized_pnl |-> 0, last_exit_timestamp |-> 0,
     entry_timestamp |-> 0, position_size_usd |-> 0, bankroll_usd |-> 4 * One,
     realized_usd |-> 0, position_realized_usd |-> 0,
     yes_blocked |-> FALSE, no_blocked |-> FALSE]

ShadowPosition_is_active(p) == p.token_side # None

\* mutant: reset without the directional block
ShadowPosition_reset_NoBlock(p, timestamp) ==
    [p EXCEPT !.active_entry = None, !.token_side = None, !.entry_price = 0,
              !.size = 0, !.position_realized_pnl = 0,
              !.last_exit_timestamp = timestamp, !.position_size_usd = 0,
              !.position_realized_usd = 0]

\* mutant: reset leaves the stake in the position
ShadowPosition_reset_KeepsStake(p, timestamp) ==
    LET lost == p.position_realized_pnl < 0
        p1 == [p EXCEPT
                 !.yes_blocked = IF lost /\ p.token_side = Some("Yes") THEN TRUE ELSE @,
                 !.no_blocked = IF lost /\ p.token_side = Some("No") THEN TRUE ELSE @]
    IN  [p1 EXCEPT !.active_entry = None, !.token_side = None, !.entry_price = 0,
                   !.size = 0, !.position_realized_pnl = 0,
                   !.last_exit_timestamp = timestamp,
                   !.position_realized_usd = 0]

ShadowPosition_reset(p, timestamp) ==
    LET lost == p.position_realized_pnl < 0
        p1 == [p EXCEPT
                 !.yes_blocked = IF lost /\ p.token_side = Some("Yes") THEN TRUE ELSE @,
                 !.no_blocked = IF lost /\ p.token_side = Some("No") THEN TRUE ELSE @]
    IN  [p1 EXCEPT !.active_entry = None, !.token_side = None, !.entry_price = 0,
                   !.size = 0, !.position_realized_pnl = 0,
                   !.last_exit_timestamp = timestamp, !.position_size_usd = 0,
                   !.position_realized_usd = 0]

\* mutant: the rollover reset puts the whole position back to its default,
\* bankroll included
ShadowPosition_full_reset_ToDefault(p) == ShadowPosition_default

ShadowPosition_full_reset(p) ==
    [p EXCEPT !.active_entry = None, !.token_side = None, !.entry_price = 0,
              !.size = 0, !.position_realized_pnl = 0, !.last_exit_timestamp = 0,
              !.entry_timestamp = 0, !.position_size_usd = 0,
              !.position_realized_usd = 0, !.yes_blocked = FALSE,
              !.no_blocked = FALSE]

\* (current_price - entry_price) / entry_price, as a multiple of 1/One
ShadowPosition_pnl(p, current_price) ==
    IF ~ShadowPosition_is_active(p) \/ p.entry_price <= 0
    THEN 0
    ELSE ((current_price - p.entry_price) * One) \div p.entry_price

\* product of two fixed-point numbers
Mul(a, b) == (a * b) \div One

(* src/src/bot/validation.rs *)

TradeRecord(market_slug, token_side, entry_price, exit_price, pnl_percent, pnl_usd, bankroll_after, duration_seconds) ==
    [market_slug |-> market_slug, token_side |-> token_side,
     entry_price |-> entry_price, exit_price |-> exit_price,
     pnl_percent |-> pnl_percent, pnl_usd |-> pnl_usd,
     bankroll_after |-> bankroll_after, duration_seconds |-> duration_seconds]

MarketRecord(market_slug, trades, total_pnl_percent, wins, losses) ==
    [market_slug |-> market_slug, trades |-> trades,
     total_pnl_percent |-> total_pnl_percent, wins |-> wins, losses |-> losses]

ValidationTracker_new(max_markets) ==
    [trades |-> <<>>, markets |-> <<>>, current_market_trades |-> <<>>,
     completed_markets |-> 0, max_markets |-> max_markets,
     starting_capital |-> 4 * One, signals_generated |-> 0,
     entries_taken |-> 0, entries_blocked_by_filter |-> 0]

ValidationTracker_record_signal(v) ==
    [v EXCEPT !.signals_generated = @ + 1]

ValidationTracker_record_entry_taken(v) ==
    [v EXCEPT !.entries_taken = @ + 1]

ValidationTracker_record_entry_blocked(v) ==
    [v EXCEPT !.entries_blocked_by_filter = @ + 1]

ValidationTracker_record_trade(v, record) ==
    [v EXCEPT !.current_market_trades = Append(@, record),
              !.trades = Append(@, record)]

RECURSIVE CountWins(_)
CountWins(trades) ==
    IF trades = <<>> THEN 0
    ELSE (IF trades[1].pnl_percent > 0 THEN 1 ELSE 0) + CountWins(Tail(trades))

RECURSIVE CountLosses(_)
CountLosses(trades) ==
    IF trades = <<>> THEN 0
    ELSE (IF trades[1].pnl_percent < 0 THEN 1 ELSE 0) + CountLosses(Tail(trades))

\* mutant: finalize_market leaves the in-progress list as it is
ValidationTracker_finalize_market_KeepsInProgress(v, market_slug, realized_pnl) ==
    [v EXCEPT !.markets = Append(@, MarketRecord(market_slug,
                              Len(v.current_market_trades), realized_pnl,
                              CountWins(v.current_market_trades),
                              CountLosses(v.current_market_trades))),
              !.completed_markets = @ + 1]

ValidationTracker_finalize_market(v, market_slug, realized_pnl) ==
    [v EXCEPT !.markets = Append(@, MarketRecord(market_slug,
                              Len(v.current_market_trades), realized_pnl,
                              CountWins(v.current_market_trades),
                              CountLosses(v.current_market_trades))),
              !.current_market_trades = <<>>,
              !.completed_markets = @ + 1]

(* Market data: src/src/commands/bot.rs, MarketSnapshot and its readers *)

\* fetch_snapshot: spread is ask - bid when both prices came back
MarketSnapshot(midpoint, best_bid, best_ask, depth) ==
    [midpoint |-> midpoint, best_bid |-> best_bid, best_ask |-> best_ask,
     spread |-> IF best_bid # None /\ best_ask # None
                THEN Some(best_ask[1] - best_bid[1]) ELSE None,
     top5_bid_depth |-> depth, top5_ask_depth |-> depth]

DualSnapshot(yes, no) == [yes |-> yes, no |-> no]

unwrap_or(opt, default) == IF opt = None THEN default ELSE opt[1]

\* mutant: the midpoint is taken for the ask
best_ask_price_Midpoint(snapshot) == snapshot.midpoint

best_ask_price(snapshot) == snapshot.best_ask

\* mutant: the ask is taken for the bid
best_bid_price_Ask(snapshot) == snapshot.best_ask

best_bid_price(snapshot) == snapshot.best_bid

midpoint_price(snapshot) ==
    IF snapshot.midpoint # None THEN snapshot.midpoint
    ELSE IF snapshot.best_bid # None /\ snapshot.best_ask # None
         THEN Some((snapshot.best_bid[1] + snapshot.best_ask[1]) \div 2)
         ELSE None

(* f64: the IEEE-754 binary64 arithmetic of the price comparisons in
   src/src/commands/bot.rs.  A natural number is held as its base-2^14
   limbs, least significant first; a float is sign, mantissa and exponent *)

Limb == 16384

RECURSIVE Pow2(_)
Pow2(n) == IF n = 0 THEN 1 ELSE 2 * Pow2(n - 1)

RECURSIVE BigTrim(_)
BigTrim(x) ==
    IF x = <<>> THEN x
    ELSE IF x[Len(x)] = 0 THEN BigTrim(SubSeq(x, 1, Len(x) - 1)) ELSE x

BigDigit(x, i) == IF i <= Len(x) THEN x[i] ELSE 0

RECURSIVE BigOfNat(_)
BigOfNat(n) == IF n = 0 THEN <<>> ELSE <<n % Limb>> \o BigOfNat(n \div Limb)

\* -1, 0 or 1 as x is below, equal to or above y, comparing from limb i down
RECURSIVE BigCmpFrom(_, _, _)
BigCmpFrom(x, y, i) ==
    IF i = 0 THEN 0
    ELSE IF BigDigit(x, i) < BigDigit(y, i) THEN -1
    ELSE IF BigDigit(x, i) > BigDigit(y, i) THEN 1
    ELSE BigCmpFrom(x, y, i - 1)

BigCmp(x, y) == BigCmpFrom(x, y, Max(Len(x), Len(y)))

RECURSIVE BigAddFrom(_, _, _, _)
BigAddFrom(x, y, i, carry) ==
    IF i > Len(x) /\ i > Len(y) THEN BigOfNat(carry)
    ELSE <<(BigDigit(x, i) + BigDigit(y, i) + carry) % Limb>>
         \o BigAddFrom(x, y, i + 1, (BigDigit(x, i) + BigDigit(y, i) + carry) \div Limb)

BigAdd(x, y) == BigAddFrom(x, y, 1, 0)

\* x - y for x >= y
RECURSIVE BigSubFrom(_, _, _, _)
BigSubFrom(x, y, i, borrow) ==
    IF i > Len(x) THEN <<>>
    ELSE <<(x[i] - BigDigit(y, i) - borrow + Limb) % Limb>>
         \o BigSubFrom(x, y, i + 1, IF x[i] - BigDigit(y, i) - borrow < 0 THEN 1 ELSE 0)

BigSub(x, y) == BigTrim(BigSubFrom(x, y, 1, 0))

\* x * k for 0 <= k <= Limb
RECURSIVE BigMulSmallFrom(_, _, _, _)
BigMulSmallFrom(x, k, i, carry) ==
    IF i > Len(x) THEN BigOfNat(carry)
    ELSE <<(x[i] * k + carry) % Limb>>
         \o BigMulSmallFrom(x, k, i + 1, (x[i] * k + carry) \div Limb)

BigMulSmall(x, k) == BigTrim(BigMulSmallFrom(x, k, 1, 0))

BigZeros(n) == [i \in 1..n |-> 0]

RECURSIVE BigMulFrom(_, _, _)
BigMulFrom(x, y, i) ==
    IF i > Len(y) THEN <<>>
    ELSE BigAdd(BigZeros(i - 1) \o BigMulSmall(x, y[i]), BigMulFrom(x, y, i + 1))

BigMul(x, y) == BigTrim(BigMulFrom(x, y, 1))

\* <<x div k, x mod k>> for 0 < k <= Limb, from limb i down
RECURSIVE BigDivSmallFrom(_, _, _, _, _)
BigDivSmallFrom(x, k, i, rem, quot) ==
    IF i = 0 THEN <<BigTrim(quot), rem>>
    ELSE BigDivSmallFrom(x, k, i - 1, (rem * Limb + x[i]) % k,
                         <<(rem * Limb + x[i]) \div k>> \o quot)

BigDivSmall(x, k) == BigDivSmallFrom(x, k, Len(x), 0, <<>>)

BigShl(x, s) ==
    IF x = <<>> THEN x ELSE BigZeros(s \div 14) \o BigMulSmall(x, Pow2(s % 14))

BigShr(x, s) ==
    IF s \div 14 >= Len(x) THEN <<>>
    ELSE BigDivSmall(SubSeq(x, s \div 14 + 1, Len(x)), Pow2(s % 14))[1]

RECURSIVE BitsOfNat(_)
BitsOfNat(n) == IF n = 0 THEN 0 ELSE 1 + BitsOfNat(n \div 2)

\* the bit length of a trimmed number
BigBits(x) == IF x = <<>> THEN 0 ELSE 14 * (Len(x) - 1) + BitsOfNat(x[Len(x)])

BigOdd(x) == x # <<>> /\ x[1] % 2 = 1

F64(neg, m, e) == [neg |-> neg, m |-> m, e |-> e]

\* m * 2^e rounded to a 53-bit mantissa, ties to even
f64_round(neg, m, e) ==
    IF BigBits(m) <= 53 THEN F64(neg /\ m # <<>>, m, e)
    ELSE LET s == BigBits(m) - 53
             q == BigShr(m, s)
             c == BigCmp(BigSub(m, BigShl(q, s)), BigShl(<<1>>, s - 1))
         IN  F64(neg, IF c = 1 \/ (c = 0 /\ BigOdd(q)) THEN BigAdd(q, <<1>>) ELSE q,
                 e + s)

\* str::parse::<f64> of the decimal k / 1000, k >= 0: the nearest float.  The
\* quotient k * 2^70 / 1000 carries a sticky bit for a nonzero remainder
f64_parse(k) ==
    LET d == BigDivSmall(BigShl(BigOfNat(k), 70), 1000)
    IN  f64_round(FALSE, BigAdd(BigShl(d[1], 1), IF d[2] > 0 THEN <<1>> ELSE <<>>), -71)

\* the exact sum of two floats, before rounding
f64_exact_sum(x, y) ==
    LET e == Min(x.e, y.e)
        mx == BigShl(x.m, x.e - e)
        my == BigShl(y.m, y.e - e)
        c == BigCmp(mx, my)
    IN  IF x.neg = y.neg THEN F64(x.neg, BigAdd(mx, my), e)
        ELSE IF c = 0 THEN F64(FALSE, <<>>, e)
        ELSE IF c = 1 THEN F64(x.neg, BigSub(mx, my), e)
        ELSE F64(y.neg, BigSub(my, mx), e)

f64_neg(x) == F64(x.m # <<>> /\ ~x.neg, x.m, x.e)

f64_abs(x) == F64(FALSE, x.m, x.e)

f64_add(x, y) ==
    LET s == f64_exact_sum(x, y) IN f64_round(s.neg, s.m, s.e)

f64_sub(x, y) == f64_add(x, f64_neg(y))

f64_mul(x, y) == f64_round(x.neg # y.neg, BigMul(x.m, y.m), x.e + y.e)

\* x > y
f64_gt(x, y) ==
    LET d == f64_exact_sum(x, f64_neg(y)) IN d.m # <<>> /\ ~d.neg

f64_max(x, y) == IF f64_gt(y, x) THEN y ELSE x

\* decimal_to_f64 of a price in thousandths
decimal_to_f64(k) == f64_parse(k)

\* spread > max_spread, for spread = ask - bid and max_spread = (ask * 0.10).max(0.03)
spread_exceeds_max(ask, bid) ==
    f64_gt(f64_sub(decimal_to_f64(ask), decimal_to_f64(bid)),
           f64_max(f64_mul(decimal_to_f64(ask), decimal_to_f64(100)), decimal_to_f64(30)))

\* (yes_ask + no_ask - 1.0).abs() > 0.10
complement_broken(yes_ask, no_ask) ==
    f64_gt(f64_abs(f64_sub(f64_add(decimal_to_f64(yes_ask), decimal_to_f64(no_ask)),
                           decimal_to_f64(1000))),
           decimal_to_f64(100))

Abs(x) == IF x < 0 THEN -x ELSE x

\* spread > max_spread.  Two sides that differ as decimals differ by 0.0001 or
\* more, far above the rounding of the floats, so the floats compare as the
\* decimals do; the float arithmetic decides when the decimals are equal
is_wide_spread(ask, bid) ==
    IF 10 * (ask - bid) # Max(ask, 300) THEN 10 * (ask - bid) > Max(ask, 300)
    ELSE spread_exceeds_max(ask, bid)

\* (yes_ask + no_ask - 1.0).abs() > 0.10, in the same way
is_broken_book(yes_ask, no_ask) ==
    IF Abs(yes_ask + no_ask - 1000) # 100 THEN Abs(yes_ask + no_ask - 1000) > 100
    ELSE complement_broken(yes_ask, no_ask)

\* mutant: trade_allowed without the price range test
trade_allowed_AnyPrice(snapshot, time_remaining, contract_age, yes_ask, no_ask) ==
    IF snapshot.best_bid = None \/ snapshot.best_ask = None THEN "NoLiquidity"
    ELSE LET bid == snapshot.best_bid[1]
             ask == snapshot.best_ask[1]
         IN  IF is_wide_spread(ask, bid) THEN "WideSpread"
             ELSE IF is_broken_book(yes_ask, no_ask) THEN "BrokenBook"
             ELSE IF time_remaining < 30 \/ contract_age < 15 THEN "Time"
             ELSE "Ok"

\* "Ok" or the FilterReason.  The range test compares two parsed decimals, and
\* parsing is monotone, so it is the comparison of the decimals
trade_allowed(snapshot, time_remaining, contract_age, yes_ask, no_ask) ==
    IF snapshot.best_bid = None \/ snapshot.best_ask = None THEN "NoLiquidity"
    ELSE LET bid == snapshot.best_bid[1]
             ask == snapshot.best_ask[1]
         IN  IF is_wide_spread(ask, bid) THEN "WideSpread"
             ELSE IF ask > 650 \/ ask < 350 THEN "ExtremePrice"
             ELSE IF is_broken_book(yes_ask, no_ask) THEN "BrokenBook"
             ELSE IF time_remaining < 30 \/ contract_age < 15 THEN "Time"
             ELSE "Ok"

WatchedMarket(end_time) == [slug |-> end_time, end_time |-> end_time]

\* discover_market_loop: the 5-minute market that is active at time t
discover_market_loop(t) ==
    WatchedMarket((t \div FIVE_MINUTES_SECONDS + 1) * FIVE_MINUTES_SECONDS)

\* mutant: handle_shadow_signals without the cooldown after an exit
handle_shadow_signals_NoCooldown(signal, dual_snapshot, p, market, timestamp, v, t) ==
    LET time_remaining == Max(market.end_time - t, 0) IN
    IF signal.entry # "None" /\ ~ShadowPosition_is_active(p)
    THEN IF time_remaining < 30 \/ time_remaining > 280 THEN <<p, v>>
         ELSE IF signal.entry = "Long" /\ p.yes_blocked THEN <<p, v>>
         ELSE IF signal.entry = "Short" /\ p.no_blocked THEN <<p, v>>
         ELSE IF p.bankroll_usd < One THEN <<p, v>>
         ELSE LET side == IF signal.entry = "Long" THEN "Yes" ELSE "No"
                  p1 == [p EXCEPT !.token_side = Some(side)]
                  entry_price == IF side = "Yes"
                                 THEN best_ask_price(dual_snapshot.yes)
                                 ELSE best_ask_price(dual_snapshot.no)
              IN  IF entry_price # None /\ entry_price[1] > 0
                  THEN <<[p1 EXCEPT !.active_entry = Some(signal.entry),
                                    !.entry_price = entry_price[1],
                                    !.size = One,
                                    !.position_realized_pnl = 0,
                                    !.entry_timestamp = timestamp,
                                    !.position_size_usd = One,
                                    !.bankroll_usd = @ - One,
                                    !.position_realized_usd = 0],
                         IF v = None THEN None
                         ELSE Some(ValidationTracker_record_entry_taken(v[1]))>>
                  ELSE <<p1, v>>
    ELSE LET exit_price == IF p.token_side = Some("Yes")
                           THEN best_bid_price(dual_snapshot.yes)
                           ELSE IF p.token_side = Some("No")
                           THEN best_bid_price(dual_snapshot.no)
                           ELSE None
         IN  IF signal.exit = "FullExit" /\ ShadowPosition_is_active(p)
                /\ exit_price # None /\ exit_price[1] > 0
             THEN LET price == exit_price[1]
                      pnl == ShadowPosition_pnl(p, price)
                      realized == Mul(pnl, p.size)
                      dollar_pnl == Mul(pnl, p.position_size_usd)
                      p1 == [p EXCEPT
                               !.realized_pnl = @ + realized,
                               !.position_realized_pnl = @ + realized,
                               !.bankroll_usd = @ + p.position_size_usd + dollar_pnl,
                               !.realized_usd = @ + dollar_pnl,
                               !.position_realized_usd = @ + dollar_pnl]
                      record == TradeRecord(market.slug, p1.token_side[1],
                                    p1.entry_price, price, p1.position_realized_pnl,
                                    p1.position_realized_usd, p1.bankroll_usd,
                                    timestamp - p1.entry_timestamp)
                  IN  <<ShadowPosition_reset(p1, timestamp),
                        IF v = None THEN None
                        ELSE Some(ValidationTracker_record_trade(v[1], record))>>
             ELSE <<p, v>>

\* <<shadow, validator>> after handle_shadow_signals
handle_shadow_signals(signal, dual_snapshot, p, market, timestamp, v, t) ==
    LET time_remaining == Max(market.end_time - t, 0) IN
    IF signal.entry # "None" /\ ~ShadowPosition_is_active(p)
    THEN IF time_remaining < 30 \/ time_remaining > 280 THEN <<p, v>>
         ELSE IF timestamp - p.last_exit_timestamp < 15 THEN <<p, v>>
         ELSE IF signal.entry = "Long" /\ p.yes_blocked THEN <<p, v>>
         ELSE IF signal.entry = "Short" /\ p.no_blocked THEN <<p, v>>
         ELSE IF p.bankroll_usd < One THEN <<p, v>>
         ELSE LET side == IF signal.entry = "Long" THEN "Yes" ELSE "No"
                  p1 == [p EXCEPT !.token_side = Some(side)]
                  entry_price == IF side = "Yes"
                                 THEN best_ask_price(dual_snapshot.yes)
                                 ELSE best_ask_price(dual_snapshot.no)
              IN  IF entry_price # None /\ entry_price[1] > 0
                  THEN <<[p1 EXCEPT !.active_entry = Some(signal.entry),
                                    !.entry_price = entry_price[1],
                                    !.size = One,
                                    !.position_realized_pnl = 0,
                                    !.entry_timestamp = timestamp,
                                    !.position_size_usd = One,
                                    !.bankroll_usd = @ - One,
                                    !.position_realized_usd = 0],
                         IF v = None THEN None
                         ELSE Some(ValidationTracker_record_entry_taken(v[1]))>>
                  ELSE <<p1, v>>
    ELSE LET exit_price == IF p.token_side = Some("Yes")
                           THEN best_bid_price(dual_snapshot.yes)
                           ELSE IF p.token_side = Some("No")
                           THEN best_bid_price(dual_snapshot.no)
                           ELSE None
         IN  IF signal.exit = "FullExit" /\ ShadowPosition_is_active(p)
                /\ exit_price # None /\ exit_price[1] > 0
             THEN LET price == exit_price[1]
                      pnl == ShadowPosition_pnl(p, price)
                      realized == Mul(pnl, p.size)
                      dollar_pnl == Mul(pnl, p.position_size_usd)
                      p1 == [p EXCEPT
                               !.realized_pnl = @ + realized,
                               !.position_realized_pnl = @ + realized,
                               !.bankroll_usd = @ + p.position_size_usd + dollar_pnl,
                               !.realized_usd = @ + dollar_pnl,
                               !.position_realized_usd = @ + dollar_pnl]
                      record == TradeRecord(market.slug, p1.token_side[1],
                                    p1.entry_price, price, p1.position_realized_pnl,
                                    p1.position_realized_usd, p1.bankroll_usd,
                                    timestamp - p1.entry_timestamp)
                  IN  <<ShadowPosition_reset(p1, timestamp),
                        IF v = None THEN None
                        ELSE Some(ValidationTracker_record_trade(v[1], record))>>
             ELSE <<p, v>>

\* the Option<ClosedCandles> a CandleEngine::update call returns to the
\* orchestrator (closed.one_minute, closed.five_second), read off the engine
\* before (e) and after (e2) the call
ClosedCandles(e, e2, price, spread, epoch_seconds) ==
    IF ~is_price_valid(price, spread) THEN None
    ELSE LET closed == ClosedBy(e, epoch_seconds)
         IN  Some([one_minute |-> IF 60 \in closed THEN get_last_1m(e2) ELSE None,
                   fifteen_second |-> IF 15 \in closed THEN get_last_15s(e2) ELSE None,
                   five_second |-> IF 5 \in closed THEN get_last_5s(e2) ELSE None])

\* mutant: a bid of exactly one half settles at 1.0
settlement_price_AtLeastHalf(price) == IF price >= 500 THEN 1000 ELSE 0

settlement_price(price) == IF price > 500 THEN 1000 ELSE 0

\* the settlement block of the rollover: <<shadow, validator>>
settle(p, v, market, yes_bid, no_bid, t) ==
    IF ~ShadowPosition_is_active(p) THEN <<p, v>>
    ELSE LET price == IF p.token_side = Some("Yes") THEN yes_bid ELSE no_bid
             settlement == settlement_price(price)
             final_pnl == ShadowPosition_pnl(p, settlement)
             dollar_pnl == Mul(final_pnl, p.position_size_usd)
             p1 == [p EXCEPT
                      !.realized_pnl = @ + Mul(final_pnl, p.size),
                      !.position_realized_pnl = @ + Mul(final_pnl, p.size),
                      !.bankroll_usd = @ + p.position_size_usd + dollar_pnl,
                      !.realized_usd = @ + dollar_pnl,
                      !.position_realized_usd = @ + dollar_pnl]
             record == TradeRecord(market.slug, p1.token_side[1], p1.entry_price,
                           settlement, p1.position_realized_pnl,
                           p1.position_realized_usd, p1.bankroll_usd,
                           t - p1.entry_timestamp)
         IN  <<p1, IF v = None THEN None
                   ELSE Some(ValidationTracker_record_trade(v[1], record))>>

\* mutant: a rejection is counted but the entry signal is passed on
filter_entry_KeepsSignal(signal, dual_snapshot, market, epoch_seconds, v) ==
    IF signal.entry = "None" THEN <<signal, v>>
    ELSE LET contract_age == epoch_seconds - (market.end_time - FIVE_MINUTES_SECONDS)
             time_remaining == Max(market.end_time - epoch_seconds, 0)
             snapshot_side == IF signal.entry = "Short" THEN dual_snapshot.no
                              ELSE dual_snapshot.yes
             yes_ask == unwrap_or(best_ask_price(dual_snapshot.yes), 0)
             no_ask == unwrap_or(best_ask_price(dual_snapshot.no), 0)
         IN  IF trade_allowed(snapshot_side, time_remaining, contract_age,
                              yes_ask, no_ask) # "Ok"
             THEN <<signal,
                    IF v = None THEN None
                    ELSE Some(ValidationTracker_record_entry_blocked(v[1]))>>
             ELSE <<signal, v>>

\* the entry filter applied to the signal: <<signal, validator>>
filter_entry(signal, dual_snapshot, market, epoch_seconds, v) ==
    IF signal.entry = "None" THEN <<signal, v>>
    ELSE LET contract_age == epoch_seconds - (market.end_time - FIVE_MINUTES_SECONDS)
             time_remaining == Max(market.end_time - epoch_seconds, 0)
             snapshot_side == IF signal.entry = "Short" THEN dual_snapshot.no
                              ELSE dual_snapshot.yes
             yes_ask == unwrap_or(best_ask_price(dual_snapshot.yes), 0)
             no_ask == unwrap_or(best_ask_price(dual_snapshot.no), 0)
         IN  IF trade_allowed(snapshot_side, time_remaining, contract_age,
                              yes_ask, no_ask) # "Ok"
             THEN <<[signal EXCEPT !.entry = "None"],
                    IF v = None THEN None
                    ELSE Some(ValidationTracker_record_entry_blocked(v[1]))>>
             ELSE <<signal, v>>

-----------------------------------------------------------------------------
(* The candle feed: CandleEngine driven by arbitrary ticks *)

MaxTicks == 3

\* <<price, spread>> pairs the gate accepts
GoodQuotes == {<<500, 50>>, <<520, 950>>}
TickVolumes == {100, 110}
TickTimes == {0, 5, 16, 61}
\* <<price, spread, volume, epoch_seconds>>: five ticks the gate has to reject
BadTicks == {<<5, 0, 100, 0>>, <<10, 50, 110, 5>>, <<990, 950, 100, 16>>,
             <<NaN, 100, 110, 61>>, <<Infinity, 100, 100, 0>>}
TickInputs ==
    {<<q[1], q[2], v, t>> : q \in GoodQuotes, v \in TickVolumes, t \in TickTimes}
        \cup BadTicks
VolumeModes == {"Snapshot", "Delta"}

\* the tick's snapshot increase over the previous tick that passed the gate
SnapshotIncrease(prev, volume) ==
    IF prev = None THEN 0 ELSE Max(volume - prev[1], 0)

NoBucket == [start |-> -1, prices |-> <<>>]

LogApplied(g, i, price, epoch_seconds) ==
    LET bs == bucket_start(i, epoch_seconds) IN
    IF g.start = -1 \/ bs > g.start THEN [start |-> bs, prices |-> <<price>>]
    ELSE IF bs = g.start THEN [g EXCEPT !.prices = Append(@, price)]
    ELSE g

LogClosed(log, g, i, epoch_seconds) ==
    IF g.start # -1 /\ bucket_start(i, epoch_seconds) > g.start
    THEN Append(log, g) ELSE log

LogVol(v, g, i, inc, epoch_seconds) ==
    LET bs == bucket_start(i, epoch_seconds) IN
    IF g.start = -1 \/ bs > g.start THEN inc
    ELSE IF bs = g.start THEN v + inc
    ELSE v

LogClosedVol(log, v, g, i, inc, epoch_seconds) ==
    IF g.start # -1 /\ bucket_start(i, epoch_seconds) > g.start
    THEN Append(log, v + inc) ELSE log

\* the engine and its history right after CandleEngine::new()
CandleFresh ==
    /\ candle_engine = CandleEngine_new
    /\ ret = FALSE
    /\ lastQuote = None
    /\ lastEpoch = 0
    /\ ticks = 0
    /\ rejected = FALSE
    /\ applied = [i \in Intervals |-> NoBucket]
    /\ closedLog = [i \in Intervals |-> <<>>]
    /\ volLog = [i \in Intervals |-> 0]
    /\ closedVol = [i \in Intervals |-> <<>>]
    /\ prevSnap = None
    /\ reports = {}

NoBids == [yes |-> None, no |-> None]

\* the locals of watch_btc_market when its loop starts at time t
BotFresh(t, v) ==
    /\ now = t
    /\ pc = "select"
    /\ watched = discover_market_loop(t)
    /\ validator = v
    /\ ind_1m = IndicatorEngine_new
    /\ ind_5s = IndicatorEngine_new
    /\ signal_engine = SignalEngine_new
    /\ shadow = ShadowPosition_default
    /\ state_1m = IndicatorState_default
    /\ state_5s = IndicatorState_default
    /\ last_midpoint = None
    /\ last_yes_bid = 0
    /\ last_no_bid = 0
    /\ rolled = None
    /\ lossClosed = {}
    /\ seenBid = NoBids
    /\ call = None

\* the candle engine on its own: the orchestrator has not started
CandleInit == CandleFresh /\ BotFresh(0, None)

\* one call of CandleEngine::update
Tick(price, spread, volume, epoch_seconds) ==
    LET r == CandleEngine_update(candle_engine, price, spread, volume, epoch_seconds)
        inc == SnapshotIncrease(prevSnap, volume)
    IN  /\ candle_engine' = r[1]
        /\ ret' = r[2]
        /\ lastQuote' = Some(<<price, spread>>)
        /\ lastEpoch' = IF r[2] THEN epoch_seconds ELSE lastEpoch
        /\ IF r[2]
           THEN /\ ticks < MaxTicks
                /\ ticks' = ticks + 1
                /\ rejected' = rejected
                /\ applied' = [i \in Intervals |->
                       LogApplied(applied[i], i, price, epoch_seconds)]
                /\ closedLog' = [i \in Intervals |->
                       LogClosed(closedLog[i], applied[i], i, epoch_seconds)]
                /\ volLog' = [i \in Intervals |->
                       LogVol(volLog[i], applied[i], i, inc, epoch_seconds)]
                /\ closedVol' = [i \in Intervals |->
                       LogClosedVol(closedVol[i], volLog[i], applied[i], i, inc,
                                    epoch_seconds)]
                /\ prevSnap' = Some(volume)
                /\ reports' = reports \cup
                       {<<r[2], ClosedBy(candle_engine, epoch_seconds)>>}
           ELSE /\ rejected' = TRUE
                /\ reports' = reports \cup {<<r[2], {}>>}
                /\ UNCHANGED <<ticks, applied, closedLog, volLog, closedVol, prevSnap>>
        /\ UNCHANGED botVars

\* CandleEngine::set_volume_mode, called before the feed starts
SetVolumeMode(mode) ==
    /\ ticks = 0
    /\ ~rejected
    /\ candle_engine[5].volume_mode # mode
    /\ candle_engine' = CandleEngine_set_volume_mode(candle_engine, mode)
    /\ UNCHANGED <<candleVars, botVars>>

CandleNext ==
    \/ \E x \in TickInputs : Tick(x[1], x[2], x[3], x[4])
    \/ \E m \in VolumeModes : SetVolumeMode(m)

SpecCandle == CandleInit /\ [][CandleNext]_vars

-----------------------------------------------------------------------------
(* The steady feed: one valid tick every 1 or 5 seconds, long enough to fill *)
(* the 5-second buffer                                                      *)

MaxFeedTime == 520

FeedSteps == {1, 5}
FeedPrice(t) == 400 + ((t \div 5) % 7) * 20

Feed(step) ==
    LET t == IF lastQuote = None THEN 0 ELSE lastEpoch + step
        r == CandleEngine_update(candle_engine, FeedPrice(t), 50, 100, t)
    IN  /\ t <= MaxFeedTime
        /\ candle_engine' = r[1]
        /\ ret' = r[2]
        /\ lastQuote' = Some(<<FeedPrice(t), 50>>)
        /\ lastEpoch' = t
        /\ UNCHANGED <<ticks, rejected, applied, closedLog, volLog, closedVol,
                       prevSnap, reports, botVars>>

FeedNext == \E step \in FeedSteps : Feed(step)

SpecBuffer == CandleInit /\ [][FeedNext]_vars

-----------------------------------------------------------------------------
(* The orchestrator: watch_btc_market.  One step is one firing of the ticker *)
(* with everything the loop body does for it.  The body is written over the  *)
(* record b of the function's locals.                                        *)

Locals ==
    [candle_engine |-> candle_engine, watched |-> watched, validator |-> validator,
     ind_1m |-> ind_1m, ind_5s |-> ind_5s, signal_engine |-> signal_engine,
     shadow |-> shadow, state_1m |-> state_1m, state_5s |-> state_5s,
     last_midpoint |-> last_midpoint, last_yes_bid |-> last_yes_bid,
     last_no_bid |-> last_no_bid]

\* mutant: the market is finalized before the position is settled
settle_and_finalize_FinalizeFirst(b, t) ==
    LET v == IF b.validator = None THEN None
             ELSE Some(ValidationTracker_finalize_market(
                      b.validator[1], b.watched.slug, b.shadow.realized_pnl))
        s == settle(b.shadow, v, b.watched, b.last_yes_bid, b.last_no_bid, t)
    IN  [b EXCEPT !.shadow = s[1], !.validator = s[2]]

\* the rollover block up to finalize_market
settle_and_finalize(b, t) ==
    LET s == settle(b.shadow, b.validator, b.watched, b.last_yes_bid,
                    b.last_no_bid, t)
    IN  [b EXCEPT !.shadow = s[1],
                  !.validator = IF s[2] = None THEN None
                                ELSE Some(ValidationTracker_finalize_market(
                                         s[2][1], b.watched.slug, s[1].realized_pnl))]

\* mutant: the validation run returns one market late
run_complete_OneLate(b) ==
    b.validator # None /\ b.validator[1].completed_markets > b.validator[1].max_markets

\* v.completed_markets >= v.max_markets: the validation run returns
run_complete(b) ==
    b.validator # None /\ b.validator[1].completed_markets >= b.validator[1].max_markets

\* the rollover block from discover_market_loop on
discover_and_reset(b, t) ==
    [b EXCEPT !.watched = discover_market_loop(t),
              !.signal_engine = SignalEngine_reset(b.signal_engine),
              !.ind_1m = IndicatorEngine_reset(b.ind_1m),
              !.ind_5s = IndicatorEngine_reset(b.ind_5s),
              !.shadow = ShadowPosition_full_reset(b.shadow),
              !.state_1m = IndicatorState_default,
              !.state_5s = IndicatorState_default,
              !.last_midpoint = None,
              !.last_yes_bid = 0,
              !.last_no_bid = 0]

\* the tick after SignalEngine::update returned signal: record_signal, the
\* entry filter and handle_shadow_signals:
\* <<shadow, validator, signal handed to handle_shadow_signals>>
apply_signal(b, signal, dual_snapshot, t) ==
    LET v1 == IF signal.entry # "None" /\ b.validator # None
              THEN Some(ValidationTracker_record_signal(b.validator[1]))
              ELSE b.validator
    IN  CHOOSE out \in UNION {{<<h[1], h[2], f[1]>> : h \in {handle_shadow_signals(f[1], dual_snapshot, b.shadow, b.watched, t, f[2], t)}} : f \in {filter_entry(signal, dual_snapshot, b.watched, t, v1)}} : TRUE

\* the tick from SignalEngine::update on, run when a 5-second candle closed,
\* with the indicator states s5 and s1 of this tick:
\* <<signal_engine, shadow, validator>>
run_signals(b, s5, s1, midpoint, t, dual_snapshot, entry, flip) ==
    LET sg == SignalEngine_update(b.signal_engine, s5, s1, midpoint, entry, flip)
        a == apply_signal(b, sg[2], dual_snapshot, t)
    IN  <<sg[1], a[1], a[2]>>

MaxTime == 300
MaxMarkets == 2

\* <<time the loop starts at, Option<usize> max_markets>>: the watch command
\* and the validation runs
StartCases == {<<240, None>>} \cup {<<250, Some(n)>> : n \in 1..MaxMarkets}
TickSteps == {5}

\* the reference midpoint the feed reports at time t
ReferenceMid(t) == 490 + ((t \div 5) % 3) * 10

\* <<best_bid, best_ask>> of one token: bid at a half, bid above a half, no prices
QuoteLow == <<Some(500), Some(510)>>
QuoteHigh == <<Some(520), Some(530)>>
QuoteNone == <<None, None>>

YesQuotes == {QuoteLow, QuoteHigh, QuoteNone}

\* the quotes of the NO token that can come with a quote of the YES token
NoQuotes(q) == IF q = QuoteLow THEN {QuoteLow, QuoteHigh, QuoteNone} ELSE {QuoteLow}

YesSnapshot(t, q) == MarketSnapshot(Some(ReferenceMid(t)), q[1], q[2], 50)
NoSnapshot(t, q) == MarketSnapshot(Some(1000 - ReferenceMid(t)), q[1], q[2], 50)

EntrySignals == {"None", "Long", "Short"}

BotInit ==
    /\ CandleFresh
    /\ \E c \in StartCases :
          BotFresh(c[1], IF c[2] = None THEN None
                         ELSE Some(ValidationTracker_new(c[2][1])))

Assign(b) ==
    /\ candle_engine' = b.candle_engine
    /\ watched' = b.watched
    /\ validator' = b.validator
    /\ ind_1m' = b.ind_1m
    /\ ind_5s' = b.ind_5s
    /\ signal_engine' = b.signal_engine
    /\ shadow' = b.shadow
    /\ state_1m' = b.state_1m
    /\ state_5s' = b.state_5s
    /\ last_midpoint' = b.last_midpoint
    /\ last_yes_bid' = b.last_yes_bid
    /\ last_no_bid' = b.last_no_bid

\* the snapshots arrive and the tick goes through the pipeline, from locals b.
\* IndicatorEngine::update returns get_state() of the engine it leaves.
Process(b, t, yq, losses, seen) ==
    LET yes == YesSnapshot(t, yq)
        mid == midpoint_price(yes)
        spread == unwrap_or(yes.spread, 0)
        simulated_volume == yes.top5_bid_depth + yes.top5_ask_depth
    IN
    IF mid = None
    THEN Assign(b) /\ lossClosed' = losses /\ seenBid' = seen
    ELSE
    /\ watched' = b.watched
    /\ last_midpoint' = mid
    /\ last_yes_bid' = unwrap_or(best_bid_price(yes), b.last_yes_bid)
    /\ candle_engine' = CandleEngine_update(b.candle_engine, mid[1], spread,
                                            simulated_volume, t)[1]
    /\ \E closed \in {ClosedCandles(b.candle_engine, candle_engine', mid[1], spread, t)} :
       LET has_1m == closed # None /\ closed[1].one_minute # None
           has_5s == closed # None /\ closed[1].five_second # None
       IN  /\ ind_1m' = IF has_1m
                         THEN IndicatorEngine_update(b.ind_1m, closed[1].one_minute[1])[1]
                         ELSE b.ind_1m
           /\ state_1m' = IF has_1m THEN IndicatorEngine_get_state(ind_1m')
                           ELSE b.state_1m
           /\ ind_5s' = IF has_5s
                         THEN IndicatorEngine_update(b.ind_5s, closed[1].five_second[1])[1]
                         ELSE b.ind_5s
           /\ state_5s' = IF has_5s THEN IndicatorEngine_get_state(ind_5s')
                           ELSE b.state_5s
           /\ \E nq \in NoQuotes(yq) :
                LET no == NoSnapshot(t, nq)
                    dual_snapshot == DualSnapshot(yes, no)
                IN  /\ last_no_bid' = unwrap_or(best_bid_price(no), b.last_no_bid)
                    /\ seenBid' = [yes |-> IF yq[1] # None THEN yq[1] ELSE seen.yes,
                                   no |-> IF nq[1] # None THEN nq[1] ELSE seen.no]
                    /\ IF ~has_5s
                       THEN /\ signal_engine' = b.signal_engine
                            /\ shadow' = b.shadow
                            /\ validator' = b.validator
                            /\ lossClosed' = losses
                       ELSE \E entry \in EntrySignals, flip \in BOOLEAN :
                            /\ b.signal_engine.active_side # None => entry = "None"
                            /\ b.signal_engine.active_side = None => ~flip
                            /\ \E g \in {run_signals(b, state_5s', state_1m', mid[1], t,
                                                       dual_snapshot, entry, flip)} :
                                   /\ signal_engine' = g[1]
                                   /\ shadow' = g[2]
                                   /\ validator' = g[3]
                                   /\ lossClosed' =
                                        IF /\ ShadowPosition_is_active(b.shadow)
                                           /\ ~ShadowPosition_is_active(g[2])
                                           /\ g[2].realized_pnl < b.shadow.realized_pnl
                                        THEN losses \cup {b.shadow.token_side[1]}
                                        ELSE losses

\* ticker.tick() fires before the watched market's end time
TickerTick(step, yq) ==
    /\ pc = "select"
    /\ now + step <= MaxTime
    /\ now + step < watched.end_time
    /\ now' = now + step
    /\ pc' = "select"
    /\ rolled' = None
    /\ UNCHANGED <<candleVars, call>>
    /\ \E b \in {Locals} : Process(b, now + step, yq, lossClosed, seenBid)

\* ticker.tick() fires at or after the end time: settlement, finalize_market,
\* then either the end of the validation run or discovery, the resets and
\* the tick
Rollover(step, yq) ==
    LET t == now + step IN
    /\ pc = "select"
    /\ t <= MaxTime
    /\ t >= watched.end_time
    /\ now' = t
    /\ UNCHANGED <<candleVars, call>>
    /\ \E b1 \in {settle_and_finalize(Locals, t)} :
         IF run_complete(b1)
         THEN /\ pc' = "done"
              /\ rolled' = Some([before |-> Locals, bids |-> seenBid,
                                 settled |-> b1, after |-> b1])
              /\ Assign(b1)
              /\ UNCHANGED <<lossClosed, seenBid>>
         ELSE \E b2 \in {discover_and_reset(b1, t)} :
              /\ pc' = "select"
              /\ rolled' = Some([before |-> Locals, bids |-> seenBid,
                                 settled |-> b1, after |-> b2])
              /\ Process(b2, t, yq, {}, NoBids)

\* ctrl_c wins the select
CtrlC ==
    /\ pc = "select"
    /\ pc' = "done"
    /\ rolled' = None
    /\ UNCHANGED <<candle_engine, candleVars, now, watched, validator, ind_1m, ind_5s,
                   signal_engine, shadow, state_1m, state_5s, last_midpoint,
                   last_yes_bid, last_no_bid, lossClosed, seenBid, call>>

BotNext ==
    \/ \E step \in TickSteps, yq \in YesQuotes : TickerTick(step, yq)
    \/ \E step \in TickSteps, yq \in YesQuotes : Rollover(step, yq)
    \/ CtrlC

SpecBot == BotInit /\ [][BotNext]_vars

-----------------------------------------------------------------------------
(* The position feed: the orchestrator from the signal on.  Each firing of   *)
(* the ticker hands an arbitrary SignalState and an arbitrary pair of books  *)
(* to record_signal, the entry filter and handle_shadow_signals; the candle  *)
(* engine, the indicators and the signal engine stay as constructed.         *)

MaxCalls == 4
\* markets lost at settlement before the feed starts
MaxLostMarkets == 3

ShadowSteps == {5, 15, 250}

\* the SignalStates the feed hands over: nothing, an entry, an exit
ShadowSignals == {SignalState("None", "None"), SignalState("Long", "None"),
                  SignalState("Short", "None"), SignalState("None", "FullExit")}

\* a book after a collapse of the token's price
QuoteCrash == <<Some(10), Some(20)>>

\* <<quotes of the YES token, quotes of the NO token>>
ShadowBooks == {<<QuoteLow, QuoteHigh>>, <<QuoteNone, QuoteLow>>,
                <<QuoteCrash, QuoteCrash>>}

\* the position after one more market in which a Long entry at a YES ask of
\* 0.51, 20 seconds into the market, was held to a settlement at 0.0
LostMarket(p) ==
    LET market == WatchedMarket(FIVE_MINUTES_SECONDS)
        book == DualSnapshot(YesSnapshot(20, QuoteLow), NoSnapshot(20, QuoteHigh))
        held == handle_shadow_signals(SignalState("Long", "None"), book, p, market,
                                      20, None, 20)[1]
    IN  ShadowPosition_full_reset(
            settle(held, None, market, 500, 520, FIVE_MINUTES_SECONDS)[1])

RECURSIVE LostMarkets(_)
LostMarkets(k) == IF k = 0 THEN ShadowPosition_default ELSE LostMarket(LostMarkets(k - 1))

\* number of signal handlings so far
Calls == IF call = None THEN 0 ELSE call[1].n

\* the feed starts with a market: of a fresh watch, of a fresh validation run,
\* or of a watch that has lost MaxLostMarkets markets
ShadowInit ==
    /\ CandleFresh
    /\ call = None
    /\ \E c \in {<<0, None>>, <<0, Some(1)>>, <<MaxLostMarkets, None>>} :
          /\ now = c[1] * FIVE_MINUTES_SECONDS
          /\ pc = "select"
          /\ watched = discover_market_loop(now)
          /\ validator = IF c[2] = None THEN None
                         ELSE Some(ValidationTracker_new(c[2][1]))
          /\ shadow = LostMarkets(c[1])
    /\ ind_1m = IndicatorEngine_new
    /\ ind_5s = IndicatorEngine_new
    /\ signal_engine = SignalEngine_new
    /\ state_1m = IndicatorState_default
    /\ state_5s = IndicatorState_default
    /\ last_midpoint = None
    /\ last_yes_bid = 0
    /\ last_no_bid = 0
    /\ rolled = None
    /\ lossClosed = {}
    /\ seenBid = NoBids

\* the tick body with the signal given, from locals b
Handle(b, t, signal, book, losses, seen) ==
    LET yes == YesSnapshot(t, book[1])
        no == NoSnapshot(t, book[2])
        dual_snapshot == DualSnapshot(yes, no)
    IN  /\ Calls < MaxCalls
        /\ candle_engine' = b.candle_engine
        /\ watched' = b.watched
        /\ ind_1m' = b.ind_1m
        /\ ind_5s' = b.ind_5s
        /\ signal_engine' = b.signal_engine
        /\ state_1m' = b.state_1m
        /\ state_5s' = b.state_5s
        /\ last_midpoint' = midpoint_price(yes)
        /\ last_yes_bid' = unwrap_or(best_bid_price(yes), b.last_yes_bid)
        /\ last_no_bid' = unwrap_or(best_bid_price(no), b.last_no_bid)
        /\ seenBid' = [yes |-> IF book[1][1] # None THEN book[1][1] ELSE seen.yes,
                       no |-> IF book[2][1] # None THEN book[2][1] ELSE seen.no]
        /\ \E a \in {apply_signal(b, signal, dual_snapshot, t)} :
              /\ shadow' = a[1]
              /\ validator' = a[2]
              /\ call' = Some([n |-> Calls + 1, signal |-> signal, passed |-> a[3],
                               book |-> dual_snapshot, market |-> b.watched,
                               shadow |-> b.shadow, validator |-> b.validator])
              /\ lossClosed' =
                   IF /\ ShadowPosition_is_active(b.shadow)
                      /\ ~ShadowPosition_is_active(a[1])
                      /\ a[1].realized_pnl < b.shadow.realized_pnl
                   THEN losses \cup {b.shadow.token_side[1]}
                   ELSE losses

ShadowTick(step, signal, book) ==
    /\ pc = "select"
    /\ now + step < watched.end_time
    /\ now' = now + step
    /\ pc' = "select"
    /\ rolled' = None
    /\ UNCHANGED candleVars
    /\ \E b \in {Locals} : Handle(b, now + step, signal, book, lossClosed, seenBid)

ShadowRollover(step, signal, book) ==
    LET t == now + step IN
    /\ pc = "select"
    /\ t >= watched.end_time
    /\ now' = t
    /\ UNCHANGED candleVars
    /\ \E b1 \in {settle_and_finalize(Locals, t)} :
         IF run_complete(b1)
         THEN /\ pc' = "done"
              /\ rolled' = Some([before |-> Locals, bids |-> seenBid,
                                 settled |-> b1, after |-> b1])
              /\ Assign(b1)
              /\ call' = None
              /\ UNCHANGED <<lossClosed, seenBid>>
         ELSE \E b2 \in {discover_and_reset(b1, t)} :
              /\ pc' = "select"
              /\ rolled' = Some([before |-> Locals, bids |-> seenBid,
                                 settled |-> b1, after |-> b2])
              /\ Handle(b2, t, signal, book, {}, NoBids)

ShadowNext ==
    \/ \E step \in ShadowSteps, signal \in ShadowSignals, book \in ShadowBooks :
          ShadowTick(step, signal, book)
    \/ \E step \in ShadowSteps, signal \in ShadowSignals, book \in ShadowBooks :
          ShadowRollover(step, signal, book)

SpecShadow == ShadowInit /\ [][ShadowNext]_vars

-----------------------------------------------------------------------------
(* The exit feed: the position feed handed every variant of ExitSignal that  *)
(* src/src/bot/signal.rs declares, beside the entries that open a position.  *)

ExitSignals == {SignalState("Long", "None"), SignalState("Short", "None"),
                SignalState("None", "FullExit"), SignalState("None", "StopLoss"),
                SignalState("None", "ScaleOut25"), SignalState("None", "ScaleOut50")}

ExitSteps == {15, 250}

ExitNext ==
    \/ \E step \in ExitSteps, signal \in ExitSignals, book \in ShadowBooks :
          ShadowTick(step, signal, book)
    \/ \E step \in ExitSteps, signal \in ExitSignals, book \in ShadowBooks :
          ShadowRollover(step, signal, book)

SpecExit == ShadowInit /\ [][ExitNext]_vars

-----------------------------------------------------------------------------
(* The entry feed: the position feed with books whose asks sit on and just   *)
(* outside the bounds of the entry filter's price range.                     *)

\* asks of 0.65 and 0.35: the two ends of the range
QuoteTop == <<Some(640), Some(650)>>
QuoteBottom == <<Some(340), Some(350)>>
\* asks of 0.66 and 0.34: just outside
QuoteOver == <<Some(650), Some(660)>>
QuoteUnder == <<Some(330), Some(340)>>

EntryBooks == {<<QuoteLow, QuoteHigh>>, <<QuoteTop, QuoteBottom>>,
               <<QuoteOver, QuoteUnder>>, <<QuoteNone, QuoteLow>>}

EntryNext ==
    \/ \E step \in ExitSteps, signal \in ShadowSignals, book \in EntryBooks :
          ShadowTick(step, signal, book)
    \/ \E step \in ExitSteps, signal \in ShadowSignals, book \in EntryBooks :
          ShadowRollover(step, signal, book)

SpecEntry == ShadowInit /\ [][EntryNext]_vars

-----------------------------------------------------------------------------
(* The validation session: the position feed under bot validate-btc, which   *)
(* runs until max_markets markets have been finalized.  The session starts   *)
(* as watch_btc_market starts it and goes through more than one market.      *)

\* max_markets of the validation runs the session feed starts
SessionMarkets == {2, 3}

SessionSteps == {15, 250}

SessionInit ==
    /\ CandleFresh
    /\ \E n \in SessionMarkets : BotFresh(0, Some(ValidationTracker_new(n)))

SessionNext ==
    \/ \E step \in SessionSteps, signal \in ShadowSignals, book \in ShadowBooks :
          ShadowTick(step, signal, book)
    \/ \E step \in SessionSteps, signal \in ShadowSignals, book \in ShadowBooks :
          ShadowRollover(step, signal, book)

SpecSession == SessionInit /\ [][SessionNext]_vars

-----------------------------------------------------------------------------
(* The validation run to its end: the session feed with the ticker firing    *)
(* again and again.  The ticker is an interval timer that the loop awaits at *)
(* every select, so a tick that stays due is taken: weak fairness of the     *)
(* loop body.  Every firing moves the clock, and discover_market_loop        *)
(* returns a market on its first attempt.  The steps are long enough for the *)
(* run to end within MaxCalls signal handlings.                              *)

ValidationRuns == {1, 2}

ValidationSteps == {150, 250}

ValidationInit ==
    /\ CandleFresh
    /\ \E n \in ValidationRuns : BotFresh(0, Some(ValidationTracker_new(n)))

ValidationNext ==
    \/ \E step \in ValidationSteps, signal \in ShadowSignals, book \in ShadowBooks :
          ShadowTick(step, signal, book)
    \/ \E step \in ValidationSteps, signal \in ShadowSignals, book \in ShadowBooks :
          ShadowRollover(step, signal, book)

SpecValidation == ValidationInit /\ [][ValidationNext]_vars /\ WF_vars(ValidationNext)

-----------------------------------------------------------------------------
(* The select of the orchestrator loop.  tokio::select! is written without   *)
(* `biased;`, so it polls its two branches starting from one picked at       *)
(* random and runs the arm of the first that is ready.  pc = "interrupted"   *)
(* is the loop waiting at the select with the ctrl_c() future ready.         *)

\* branches of the select that are ready when the ticker has fired
ready_branches == IF pc = "interrupted" THEN {"ctrl_c", "tick"} ELSE {"tick"}

\* the branches whose arm the select can run, given the ready ones
select_Biased(ready) == IF "ctrl_c" \in ready THEN {"ctrl_c"} ELSE ready

select(ready) == ready

\* the interrupt signal arrives while the loop waits at the select
Interrupt ==
    /\ pc = "select"
    /\ pc' = "interrupted"
    /\ rolled' = None
    /\ UNCHANGED <<candle_engine, candleVars, now, watched, validator, ind_1m, ind_5s,
                   signal_engine, shadow, state_1m, state_5s, last_midpoint,
                   last_yes_bid, last_no_bid, lossClosed, seenBid, call>>

\* the select runs the ctrl_c arm: the loop breaks
SelectCtrlC ==
    /\ pc = "interrupted"
    /\ pc' = "done"
    /\ rolled' = None
    /\ UNCHANGED <<candle_engine, candleVars, now, watched, validator, ind_1m, ind_5s,
                   signal_engine, shadow, state_1m, state_5s, last_midpoint,
                   last_yes_bid, last_no_bid, lossClosed, seenBid, call>>

\* the select runs the ticker arm before the watched market's end time.  The
\* ctrl_c() future of this select is dropped with it and the next iteration
\* makes a new one; whether that one is ready at once is left open.
SelectTick(step, signal, book) ==
    /\ pc \in {"select", "interrupted"}
    /\ "tick" \in select(ready_branches)
    /\ now + step < watched.end_time
    /\ now' = now + step
    /\ pc' \in {"select", pc}
    /\ rolled' = None
    /\ UNCHANGED candleVars
    /\ \E b \in {Locals} : Handle(b, now + step, signal, book, lossClosed, seenBid)

\* the select runs the ticker arm at or after the end time
SelectRollover(step, signal, book) ==
    LET t == now + step IN
    /\ pc \in {"select", "interrupted"}
    /\ "tick" \in select(ready_branches)
    /\ t >= watched.end_time
    /\ now' = t
    /\ UNCHANGED candleVars
    /\ \E b1 \in {settle_and_finalize(Locals, t)} :
         IF run_complete(b1)
         THEN /\ pc' = "done"
              /\ rolled' = Some([before |-> Locals, bids |-> seenBid,
                                 settled |-> b1, after |-> b1])
              /\ Assign(b1)
              /\ call' = None
              /\ UNCHANGED <<lossClosed, seenBid>>
         ELSE \E b2 \in {discover_and_reset(b1, t)} :
              /\ pc' \in {"select", pc}
              /\ rolled' = Some([before |-> Locals, bids |-> seenBid,
                                 settled |-> b1, after |-> b2])
              /\ Handle(b2, t, signal, book, {}, NoBids)

SelectSignals == {SignalState("None", "None"), SignalState("Long", "None"),
                  SignalState("None", "FullExit")}

SelectNext ==
    \/ Interrupt
    \/ SelectCtrlC
    \/ \E step \in ExitSteps, signal \in SelectSignals, book \in ShadowBooks :
          SelectTick(step, signal, book)
    \/ \E step \in ExitSteps, signal \in SelectSignals, book \in ShadowBooks :
          SelectRollover(step, signal, book)

SpecSelect == ShadowInit /\ [][SelectNext]_vars

-----------------------------------------------------------------------------
(* The entry filter: trade_allowed applied to arbitrary books and times *)

FilterBids == {None, Some(320), Some(360), Some(400), Some(470), Some(600)}
FilterAsks == {None, Some(340), Some(400), Some(500), Some(650), Some(660)}
FilterComplements == {0, 400, 500, 550, 600, 990}
FilterTimes == {29, 30, 60}
FilterAges == {14, 15, 30}

\* the locals of watch_btc_market that the filter and the indicators leave alone
BotIdle ==
    /\ now = 0
    /\ pc = "select"
    /\ watched = discover_market_loop(0)
    /\ validator = None
    /\ signal_engine = SignalEngine_new
    /\ shadow = ShadowPosition_default
    /\ last_midpoint = None
    /\ last_yes_bid = 0
    /\ last_no_bid = 0
    /\ rolled = None
    /\ lossClosed = {}
    /\ seenBid = NoBids

FilterInit ==
    /\ CandleFresh
    /\ BotIdle
    /\ ind_1m = IndicatorEngine_new
    /\ ind_5s = IndicatorEngine_new
    /\ state_1m = IndicatorState_default
    /\ state_5s = IndicatorState_default
    /\ \E bid \in FilterBids, ask \in FilterAsks, yes_ask, no_ask \in FilterComplements, time_remaining \in FilterTimes, contract_age \in FilterAges :
          call = Some([snapshot |-> MarketSnapshot(None, bid, ask, 500),
                       time_remaining |-> time_remaining,
                       contract_age |-> contract_age,
                       yes_ask |-> yes_ask, no_ask |-> no_ask,
                       result |-> None])

TradeAllowed ==
    /\ call[1].result = None
    /\ call' = Some([call[1] EXCEPT !.result = Some(trade_allowed(call[1].snapshot, call[1].time_remaining, call[1].contract_age, call[1].yes_ask, call[1].no_ask))])
    /\ UNCHANGED <<candle_engine, candleVars, now, pc, watched, validator, ind_1m, ind_5s, signal_engine, shadow, state_1m, state_5s, last_midpoint, last_yes_bid, last_no_bid, rolled, lossClosed, seenBid>>

FilterNext == TradeAllowed

SpecFilter == FilterInit /\ [][FilterNext]_vars

-----------------------------------------------------------------------------
(* The indicator feed: IndicatorEngine::update driven by arbitrary candles *)

MaxFeeds == 6

\* <<seconds from the previous candle's start_time, close>>: candles a minute
\* apart, a candle of the same start_time, candles after a gap, and closes
\* that are not a number, not finite or not above 0.0001
IndicatorFeeds == {<<60, 500>>, <<60, 600>>, <<0, 600>>, <<125, 600>>, <<60, NaN>>, <<60, Infinity>>, <<60, 0>>, <<125, NaN>>}

IndicatorInit ==
    /\ CandleFresh
    /\ BotIdle
    /\ ind_1m = IndicatorEngine_new
    /\ ind_5s = IndicatorEngine_new
    /\ state_1m = IndicatorState_default
    /\ state_5s = IndicatorState_default
    /\ call = None

\* engine.update(&candle) on ind_5s; call keeps the candle and the engine and
\* the state returned before it
IndicatorFeed(step, close) ==
    /\ Calls < MaxFeeds
    /\ now' = now + step
    /\ \E out \in {IndicatorEngine_update(ind_5s, Candle(now + step, close, close, close, close, 0))} :
          /\ ind_5s' = out[1]
          /\ state_5s' = out[2]
    /\ call' = Some([n |-> Calls + 1,
                     candle |-> Candle(now + step, close, close, close, close, 0),
                     engine |-> ind_5s, state |-> state_5s])
    /\ UNCHANGED <<candle_engine, candleVars, pc, watched, validator, ind_1m, signal_engine, shadow, state_1m, last_midpoint, last_yes_bid, last_no_bid, rolled, lossClosed, seenBid>>

IndicatorNext == \E f \in IndicatorFeeds : IndicatorFeed(f[1], f[2])

SpecIndicator == IndicatorInit /\ [][IndicatorNext]_vars

-----------------------------------------------------------------------------
(* The oscillator feed: Rsi::update and MomentumSlope::update on the closes  *)
(* IndicatorEngine::update hands them, for small periods and windows.  The   *)
(* closes differ by multiples of 0.48, so that every average of up to       *)
(* MaxCloses steps is an integer number of thousandths.                      *)

MaxCloses == 6

OscillatorCloses == {20, 500, 980}
RsiPeriods == {2, 14}
SlopeWindows == {2, 3}

OscillatorInit ==
    /\ CandleFresh
    /\ BotIdle
    /\ ind_1m = IndicatorEngine_new
    /\ ind_5s = IndicatorEngine_new
    /\ state_1m = IndicatorState_default
    /\ state_5s = IndicatorState_default
    /\ \E period \in RsiPeriods, window \in SlopeWindows :
          call = Some([n |-> 0, history |-> <<>>,
                       rsi |-> Rsi_new(period), rsi_out |-> None,
                       slope |-> MomentumSlope_new(window), slope_out |-> None])

\* self.rsi14.update(close); self.slope.update(close): call keeps the two
\* indicators, the values the calls returned and the closes fed so far
OscillatorFeed(close) ==
    /\ Calls < MaxCloses
    /\ \E r \in {Rsi_update(call[1].rsi, close)}, m \in {MomentumSlope_update(call[1].slope, close)} :
          call' = Some([n |-> Calls + 1, history |-> Append(call[1].history, close),
                        rsi |-> r, rsi_out |-> r.value,
                        slope |-> m, slope_out |-> m.value])
    /\ UNCHANGED <<candle_engine, candleVars, now, pc, watched, validator, ind_1m, ind_5s, signal_engine, shadow, state_1m, state_5s, last_midpoint, last_yes_bid, last_no_bid, rolled, lossClosed, seenBid>>

OscillatorNext == \E close \in OscillatorCloses : OscillatorFeed(close)

SpecOscillator == OscillatorInit /\ [][OscillatorNext]_vars

-----------------------------------------------------------------------------
(* The signal feed: SignalEngine::update of src/src/bot/signal.rs driven by  *)
(* arbitrary indicator states and by prices of one of two ladders, each the  *)
(* entry price 0.50 with its stop-loss, +20%, +40% and ceiling or floor.     *)

mock_state(ema9, ema21, rsi14, slope) == IndicatorState(ema9, ema21, rsi14, slope)

LongLadder == {450, 500, 600, 700, 950}
ShortLadder == {550, 500, 400, 300, 50}

\* <<one_min, fifteen_sec, five_sec>>: the three timeframes agree on Long, or
\* on Short; the 1-minute state is flat, is missing, or disagrees with itself;
\* the 15-second state is missing; the 5-second slope is only 0.001
SignalFeeds ==
    { <<mock_state(Some(600), Some(550), Some(58000), Some(10000)), mock_state(Some(620), Some(600), Some(65000), Some(20000)), mock_state(Some(630), Some(610), Some(68000), Some(5000))>>,
      <<mock_state(Some(500), Some(550), Some(40000), Some(-10000)), mock_state(Some(480), Some(500), Some(35000), Some(-20000)), mock_state(Some(470), Some(490), Some(32000), Some(-5000))>>,
      <<mock_state(Some(500), Some(500), Some(50000), Some(0)), mock_state(Some(620), Some(600), Some(65000), Some(20000)), mock_state(Some(630), Some(610), Some(68000), Some(5000))>>,
      <<IndicatorState_default, mock_state(Some(620), Some(600), Some(65000), Some(20000)), mock_state(Some(630), Some(610), Some(68000), Some(5000))>>,
      <<mock_state(Some(600), Some(550), Some(58000), Some(-10000)), mock_state(Some(620), Some(600), Some(65000), Some(20000)), mock_state(Some(630), Some(610), Some(68000), Some(5000))>>,
      <<mock_state(Some(600), Some(550), Some(58000), Some(10000)), IndicatorState_default, mock_state(Some(630), Some(610), Some(68000), Some(5000))>>,
      <<mock_state(Some(600), Some(550), Some(58000), Some(10000)), mock_state(Some(620), Some(600), Some(65000), Some(20000)), mock_state(Some(630), Some(610), Some(68000), Some(1000))>> }

SignalInit ==
    /\ CandleFresh
    /\ now = 0
    /\ pc = "select"
    /\ watched = discover_market_loop(0)
    /\ validator = None
    /\ signal_engine = signal_SignalEngine_new
    /\ shadow = ShadowPosition_default
    /\ last_midpoint = None
    /\ last_yes_bid = 0
    /\ last_no_bid = 0
    /\ rolled = None
    /\ lossClosed = {}
    /\ seenBid = NoBids
    /\ ind_1m = IndicatorEngine_new
    /\ ind_5s = IndicatorEngine_new
    /\ state_1m = IndicatorState_default
    /\ state_5s = IndicatorState_default
    /\ \E prices \in {LongLadder, ShortLadder} :
          call = Some([prices |-> prices, n |-> 0, one_min |-> IndicatorState_default,
                       fifteen_sec |-> IndicatorState_default,
                       five_sec |-> IndicatorState_default, current_price |-> 0,
                       engine |-> signal_SignalEngine_new, state |-> None,
                       emitted |-> <<>>, previous |-> None])

\* the scale-outs returned so far for the position the engine holds
ScaleOutsEmitted(emitted, before, after, exit) ==
    LET sofar == IF before.active_position = None THEN <<>> ELSE emitted
    IN  IF after.active_position = None THEN <<>>
        ELSE IF exit \in {"ScaleOut25", "ScaleOut50"} THEN Append(sofar, exit)
        ELSE sofar

\* engine.update(&one_min, &fifteen_sec, &five_sec, current_price); call keeps
\* the arguments, the engine before the call, the SignalState returned and
\* (previous) the entry and exit of the update before
SignalUpdate(feed, current_price) ==
    /\ call[1].state = None
    /\ \E out \in {signal_SignalEngine_update(signal_engine, feed[1], feed[2], feed[3], current_price)} :
          /\ signal_engine' = out[1]
          /\ call' = Some([prices |-> call[1].prices, n |-> 1, one_min |-> feed[1],
                           fifteen_sec |-> feed[2], five_sec |-> feed[3],
                           current_price |-> current_price,
                           engine |-> signal_engine, state |-> Some(out[2]),
                           emitted |-> ScaleOutsEmitted(call[1].emitted, signal_engine, out[1], out[2].exit),
                           previous |-> call[1].previous])
    /\ UNCHANGED <<candle_engine, candleVars, now, pc, watched, validator, ind_1m, ind_5s, shadow, state_1m, state_5s, last_midpoint, last_yes_bid, last_no_bid, rolled, lossClosed, seenBid>>

\* the caller is done with the returned SignalState: only the engine, the
\* scale-outs of its position and the entry and exit just returned stay
SignalConsumed ==
    /\ call[1].state # None
    /\ call' = Some([prices |-> call[1].prices, n |-> 0, one_min |-> IndicatorState_default,
                     fifteen_sec |-> IndicatorState_default,
                     five_sec |-> IndicatorState_default, current_price |-> 0,
                     engine |-> signal_SignalEngine_new, state |-> None,
                     emitted |-> call[1].emitted,
                     previous |-> Some(SignalState(call[1].state[1].entry, call[1].state[1].exit))])
    /\ UNCHANGED <<candle_engine, candleVars, now, pc, watched, validator, ind_1m, ind_5s, signal_engine, shadow, state_1m, state_5s, last_midpoint, last_yes_bid, last_no_bid, rolled, lossClosed, seenBid>>

SignalNext ==
    \/ \E feed \in SignalFeeds : \E current_price \in call[1].prices : SignalUpdate(feed, current_price)
    \/ SignalConsumed

SpecSignal == SignalInit /\ [][SignalNext]_vars

-----------------------------------------------------------------------------
(* The expansion feed: the engine that watch_btc_market calls, driven by     *)
(* arbitrary fast and slow slopes and by prices around one edge of the entry *)
(* range: 0.50 with 0.65 and 0.66, or 0.50 with 0.35 and 0.34.               *)

UpperPrices == {500, 650, 660}
LowerPrices == {500, 350, 340}

\* <<fast slope, slow slope>> in millionths: beyond, at and short of 0.002;
\* flat; missing; and slow slopes at, short of and against 0.0005
ExpansionSlopes ==
    { <<Some(3000), None>>, <<Some(3000), Some(500)>>, <<Some(3000), Some(400)>>, <<Some(3000), Some(-500)>>,
      <<Some(2000), None>>, <<Some(0), None>>, <<None, Some(1000)>>,
      <<Some(-3000), None>>, <<Some(-3000), Some(-400)>>, <<Some(-2000), Some(-1000)>> }

ExpansionInit ==
    /\ CandleFresh
    /\ BotIdle
    /\ ind_1m = IndicatorEngine_new
    /\ ind_5s = IndicatorEngine_new
    /\ state_1m = IndicatorState_default
    /\ state_5s = IndicatorState_default
    /\ \E prices \in {UpperPrices, LowerPrices} :
          call = Some([prices |-> prices, n |-> 0, current_price |-> 0,
                       engine |-> SignalEngine_new, state |-> None])

\* state_5s and state_1m as the indicator engines hand them over, then
\* signal_engine.update(&state_5s, &state_1m, midpoint); call keeps the price,
\* the engine before the call and the SignalState returned
ExpansionUpdate(slopes, midpoint) ==
    /\ call[1].state = None
    /\ state_5s' = mock_state(Some(500), Some(500), Some(50000), slopes[1])
    /\ state_1m' = mock_state(Some(500), Some(500), Some(50000), slopes[2])
    /\ \E out \in {SignalEngine_decide(signal_engine, state_5s', state_1m', midpoint)} :
          /\ signal_engine' = out[1]
          /\ call' = Some([prices |-> call[1].prices, n |-> 1, current_price |-> midpoint,
                           engine |-> signal_engine, state |-> Some(out[2])])
    /\ UNCHANGED <<candle_engine, candleVars, now, pc, watched, validator, ind_1m, ind_5s, shadow, last_midpoint, last_yes_bid, last_no_bid, rolled, lossClosed, seenBid>>

\* the tick ends: the returned SignalState goes out of scope
ExpansionConsumed ==
    /\ call[1].state # None
    /\ call' = Some([prices |-> call[1].prices, n |-> 0, current_price |-> 0,
                     engine |-> SignalEngine_new, state |-> None])
    /\ UNCHANGED <<candle_engine, candleVars, now, pc, watched, validator, ind_1m, ind_5s, signal_engine, shadow, state_1m, state_5s, last_midpoint, last_yes_bid, last_no_bid, rolled, lossClosed, seenBid>>

ExpansionNext ==
    \/ \E slopes \in ExpansionSlopes : \E midpoint \in call[1].prices : ExpansionUpdate(slopes, midpoint)
    \/ ExpansionConsumed

SpecExpansion == ExpansionInit /\ [][ExpansionNext]_vars

-----------------------------------------------------------------------------
(* The signal pipeline: every step is a tick on which a 5-second candle      *)
(* closed, so SignalEngine::update of src/src/bot/signal.rs runs and its     *)
(* SignalState goes through record_signal, the entry filter and              *)
(* handle_shadow_signals.  The indicator states of the three timeframes are  *)
(* inputs; the reference price is the midpoint of the tick.  The pipeline    *)
(* starts 15 seconds into a market, after three closes of a rising midpoint. *)

PipelineWarmup == <<470, 480, 480>>

RECURSIVE Warmed(_)
Warmed(k) ==
    IF k = 0 THEN signal_SignalEngine_new
    ELSE signal_SignalEngine_update(Warmed(k - 1), IndicatorState_default, IndicatorState_default, IndicatorState_default, PipelineWarmup[k])[1]

PipelineSteps == {5, 15}

PipelineInit ==
    /\ CandleFresh
    /\ call = None
    /\ now = 15
    /\ pc = "select"
    /\ watched = discover_market_loop(now)
    /\ validator \in {None, Some(ValidationTracker_new(1))}
    /\ shadow = ShadowPosition_default
    /\ ind_1m = IndicatorEngine_new
    /\ ind_5s = IndicatorEngine_new
    /\ signal_engine = Warmed(Len(PipelineWarmup))
    /\ state_1m = IndicatorState_default
    /\ state_5s = IndicatorState_default
    /\ last_midpoint = None
    /\ last_yes_bid = 0
    /\ last_no_bid = 0
    /\ rolled = None
    /\ lossClosed = {}
    /\ seenBid = NoBids

PipelineClose(step, feed, book) ==
    /\ pc = "select"
    /\ now + step < watched.end_time
    /\ now' = now + step
    /\ pc' = "select"
    /\ rolled' = None
    /\ UNCHANGED candleVars
    /\ \E sg \in {signal_SignalEngine_update(signal_engine, feed[1], feed[2], feed[3], ReferenceMid(now + step))} :
       \E b \in {[Locals EXCEPT !.signal_engine = sg[1]]} :
          Handle(b, now + step, SignalState(sg[2].entry, sg[2].exit), book, lossClosed, seenBid)

PipelineNext ==
    \E step \in PipelineSteps, feed \in SignalFeeds, book \in ShadowBooks :
        PipelineClose(step, feed, book)

SpecPipeline == PipelineInit /\ [][PipelineNext]_vars

-----------------------------------------------------------------------------
(* Claims about the candle engine *)

Last(q) == q[Len(q)]

RECURSIVE SeqMax(_)
SeqMax(q) == IF Len(q) = 1 THEN q[1] ELSE Max(q[1], SeqMax(Tail(q)))

RECURSIVE SeqMin(_)
SeqMin(q) == IF Len(q) = 1 THEN q[1] ELSE Min(q[1], SeqMin(Tail(q)))

\* the validity gate as section 4.2 states it
ShouldReject(price, spread) ==
    \/ price \in {NaN, Infinity}
    \/ price <= 10
    \/ price >= 990 /\ spread > 900

\* C1: for an aggregator with an open candle, a tick that passes the gate and
\* whose bucket start is strictly earlier than the open candle's start_time
\* leaves the whole aggregator unchanged (open candle, closed buffer, volume
\* bookkeeping) in both volume modes.
C1_LateTickLeavesAggregator ==
    [][\A i \in Intervals :
          ( /\ ticks' = ticks + 1
            /\ candle_engine[i].current # None
            /\ bucket_start(i, lastEpoch')
                 < candle_engine[i].current[1].start_time )
          => candle_engine'[i] = candle_engine[i]]_vars

\* C2: every closed candle summarises exactly the ticks applied to its bucket:
\* open is the first price, close the last, high the maximum, low the minimum,
\* so low <= open, close <= high; and the last closed candle is strictly older
\* than the open candle (a tick of a later bucket closed it).
C2_ClosedCandleSummarisesBucket ==
    \A i \in Intervals :
        LET buf == candle_engine[i].buffer
            log == closedLog[i]
        IN  /\ Len(buf) = Min(Len(log), MAX_BUFFER_LEN)
            /\ \A k \in 1..Len(buf) :
                  LET c == buf[k]
                      g == log[Len(log) - Len(buf) + k]
                  IN  /\ c.start_time = g.start
                      /\ c.open = g.prices[1]
                      /\ c.close = Last(g.prices)
                      /\ c.high = SeqMax(g.prices)
                      /\ c.low = SeqMin(g.prices)
                      /\ c.low <= c.open /\ c.open <= c.high
                      /\ c.low <= c.close /\ c.close <= c.high
            /\ buf # <<>> =>
                  /\ candle_engine[i].current # None
                  /\ candle_engine[i].current[1].start_time > Last(buf).start_time

\* C2 witness: a closed candle built from at least two ticks of different price
C2_Witness ==
    \E i \in Intervals :
        /\ candle_engine[i].buffer # <<>>
        /\ Len(closedLog[i][1].prices) >= 2
        /\ candle_engine[i].buffer[1].high > candle_engine[i].buffer[1].low
        /\ candle_engine[i].buffer[1].close # candle_engine[i].buffer[1].high

\* C3: a tick with non-finite price, price <= 0.01, or price >= 0.99 with
\* spread > 0.9 is rejected (false) and changes no aggregator; any other tick
\* is accepted (true), and on an engine with no open candle its price becomes
\* the open of the new candle at every interval.
C3_RejectedTickChangesNothing ==
    [][lastQuote' # lastQuote \/ ticks' # ticks =>
          IF ShouldReject(lastQuote'[1][1], lastQuote'[1][2])
          THEN ~ret' /\ candle_engine' = candle_engine
          ELSE /\ ret'
               /\ \A i \in Intervals :
                     candle_engine[i].current = None =>
                       /\ candle_engine'[i].current # None
                       /\ candle_engine'[i].current[1].open = lastQuote'[1][1]]_vars

\* C3 witness: rejected ticks came first, then the only accepted tick, whose
\* price 0.50 is the open of the candle at all three intervals
C3_Witness ==
    /\ rejected
    /\ ticks = 1
    /\ ret
    /\ \A i \in Intervals :
          /\ candle_engine[i].current # None
          /\ candle_engine[i].current[1].open = 500
          /\ candle_engine[i].buffer = <<>>

\* C4: in Snapshot mode the volume of a closed candle is the sum of the
\* snapshot increases max(0, snapshot - previous snapshot) of the ticks of its
\* bucket up to and including the tick that closes it.
C4_SnapshotVolumeIncludesClosingTick ==
    \A i \in Intervals :
        candle_engine[i].volume_mode = "Snapshot" =>
            \A k \in 1..Len(candle_engine[i].buffer) :
                candle_engine[i].buffer[k].volume = closedVol[i][k]

\* C5: the value CandleEngine::update returns tells the caller exactly which
\* intervals closed on that tick: equal returned values mean equal sets.
C5_ReturnTellsClosedIntervals ==
    \A a \in reports, b \in reports : a[1] = b[1] => a[2] = b[2]

\* C6: an aggregator's closed-candle buffer never holds more than 100
\* candles; a candle closing on a full buffer evicts the oldest one and becomes
\* the last element, the rest keeping their order.
C6_BufferBoundedFifo ==
    /\ [](\A i \in Intervals : Len(candle_engine[i].buffer) <= 100)
    /\ [][\A i \in ClosedBy(candle_engine, lastEpoch') :
            LET old == candle_engine[i].buffer
                new == candle_engine'[i].buffer
            IN  /\ Last(new) = candle_engine[i].current[1]
                /\ IF Len(old) = 100
                   THEN /\ Len(new) = 100
                        /\ \A k \in 1..99 : new[k] = old[k + 1]
                   ELSE /\ Len(new) = Len(old) + 1
                        /\ \A k \in 1..Len(old) : new[k] = old[k]]_vars

\* C6 witness: the 5-second buffer is full and its first candle was evicted
C6_Witness ==
    /\ Len(candle_engine[5].buffer) = 100
    /\ candle_engine[5].buffer[1].start_time = 10
    /\ candle_engine[5].buffer[100].start_time = 505

\* the step pushes a closed candle onto the buffer of interval i
ClosesCandle(i) == candle_engine'[i].buffer # candle_engine[i].buffer

\* C39: a tick that closes the 1-minute candle also closes the 15-second and
\* the 5-second candle, and a tick that closes the 15-second candle also
\* closes the 5-second candle; in each buffer the closed candles have
\* strictly increasing start times, each a multiple of the interval.
C39_ClosesNestAndBuffersAscend ==
    /\ [][/\ ClosesCandle(60) => ClosesCandle(15)
          /\ ClosesCandle(15) => ClosesCandle(5)]_vars
    /\ [](\A i \in Intervals :
             /\ \A k \in 1..Len(candle_engine[i].buffer) :
                    candle_engine[i].buffer[k].start_time % i = 0
             /\ \A k \in 1..(Len(candle_engine[i].buffer) - 1) :
                    candle_engine[i].buffer[k].start_time < candle_engine[i].buffer[k + 1].start_time)

\* the tick at 61 seconds closed the candles of all three intervals, after
\* the tick at 5 seconds had closed the 5-second candle alone
C39_Witness ==
    /\ lastEpoch = 61
    /\ Len(candle_engine[60].buffer) = 1
    /\ Len(candle_engine[15].buffer) = 1
    /\ Len(candle_engine[5].buffer) = 2
    /\ candle_engine[5].buffer[1].start_time = 0
    /\ candle_engine[5].buffer[2].start_time = 5
    /\ candle_engine[60].current[1].start_time = 60

\* a tick at 5 seconds that came after the tick at 16 seconds was late for
\* the 5-second and 15-second candles and went into the 1-minute candle; the
\* tick at 61 seconds then closed all three
C39_WitnessLateTick ==
    /\ lastEpoch = 61
    /\ Len(closedLog[60]) = 1
    /\ Len(closedLog[60][1].prices) = 2
    /\ Len(candle_engine[5].buffer) = 1
    /\ Len(candle_engine[15].buffer) = 1
    /\ Len(candle_engine[60].buffer) = 1
    /\ candle_engine[5].buffer[1].start_time = 15
    /\ candle_engine[15].buffer[1].start_time = 15
    /\ candle_engine[60].buffer[1].start_time = 0

-----------------------------------------------------------------------------
(* Claims about the orchestrator *)

TokenSides == {"Yes", "No"}

\* the last step was a rollover after which the loop goes on in a new market
RolledOver == rolled # None /\ pc = "select"

\* C7: a token side that was closed at a loss in the watched market is blocked
\* and is not entered again before the rollover, and only that side is
\* blocked: the lock flag of a side is set exactly when that side was closed
\* at a loss, and a side the position holds has not been closed at a loss.
C7_LosingSideLockedOtherSideOpen ==
    /\ shadow.yes_blocked <=> "Yes" \in lossClosed
    /\ shadow.no_blocked <=> "No" \in lossClosed
    /\ \A side \in TokenSides :
          shadow.token_side = Some(side) => side \notin lossClosed

\* a Short entry was taken after the Long side was closed at a loss
C7_Witness ==
    /\ "Yes" \in lossClosed
    /\ shadow.yes_blocked
    /\ shadow.token_side = Some("No")
    /\ shadow.active_entry = Some("Short")
    /\ shadow.entry_timestamp > shadow.last_exit_timestamp

\* 1.0 if the last bid seen for the held token is above one half, else 0.0
SettlementOf(r) ==
    LET bid == IF r.before.shadow.token_side = Some("Yes") THEN r.bids.yes
               ELSE r.bids.no
    IN  IF bid # None /\ bid[1] > 500 THEN 1000 ELSE 0

\* C8: a rollover with an active position settles it at 1.0 if the last bid
\* seen for the held token is above 0.5 and at 0.0 otherwise, and credits the
\* bankroll with stake * (1 + (settlement - entry) / entry); a position that
\* holds a side without a stake or an entry price is credited nothing; the
\* trade record of the settlement carries the settlement price.
C8_RolloverSettlesAtBinaryPrice ==
    (rolled # None /\ ShadowPosition_is_active(rolled[1].before.shadow)) =>
        LET r == rolled[1]
            held == r.before.shadow
            stake == held.position_size_usd
            settlement == SettlementOf(r)
        IN  /\ r.settled.shadow.bankroll_usd =
                  IF held.entry_price > 0
                  THEN held.bankroll_usd + stake
                       + (stake * (settlement - held.entry_price))
                             \div held.entry_price
                  ELSE held.bankroll_usd
            /\ held.entry_price = 0 => stake = 0
            /\ r.before.validator # None =>
                  Last(r.settled.validator[1].trades).exit_price = settlement

\* a NO position is settled at 1.0 on its own last bid while the YES bid is
\* at one half
C8_Witness ==
    /\ rolled # None
    /\ rolled[1].before.shadow.token_side = Some("No")
    /\ rolled[1].before.shadow.entry_price > 0
    /\ rolled[1].bids = [yes |-> Some(500), no |-> Some(520)]
    /\ rolled[1].settled.shadow.bankroll_usd > rolled[1].before.shadow.bankroll_usd + One

\* C9: after the resets of a rollover and before the tick is processed every
\* per-market engine is in its initial state: the candle engine has no open
\* candle and no closed candle at any interval, the indicator engines and
\* the signal engine are as constructed and the shadow position is inactive.
C9_EnginesInitialAfterRollover ==
    RolledOver =>
        LET a == rolled[1].after
        IN  /\ \A i \in Intervals :
                  a.candle_engine[i].current = None /\ a.candle_engine[i].buffer = <<>>
            /\ a.ind_1m = IndicatorEngine_new
            /\ a.ind_5s = IndicatorEngine_new
            /\ a.signal_engine = SignalEngine_new
            /\ ~ShadowPosition_is_active(a.shadow)

IsPrefix(p, q) == Len(p) <= Len(q) /\ SubSeq(q, 1, Len(p)) = p

\* C10: the resets of a rollover leave the bankroll and the validation
\* tracker as the settlement left them, the trade and market lists keep
\* everything they held before the rollover, and both lock flags and the
\* cooldown timestamp are cleared.
C10_FullResetKeepsBankrollAndHistory ==
    RolledOver =>
        LET r == rolled[1]
        IN  /\ r.after.shadow.bankroll_usd = r.settled.shadow.bankroll_usd
            /\ r.after.validator = r.settled.validator
            /\ r.before.validator # None =>
                  /\ IsPrefix(r.before.validator[1].trades, r.after.validator[1].trades)
                  /\ IsPrefix(r.before.validator[1].markets, r.after.validator[1].markets)
            /\ ~r.after.shadow.yes_blocked
            /\ ~r.after.shadow.no_blocked
            /\ r.after.shadow.last_exit_timestamp = 0

\* the rollover reset acts on a locked side, a running cooldown, a bankroll
\* off its default and a tracker that holds a trade
C10_Witness ==
    /\ RolledOver
    /\ rolled[1].settled.shadow.yes_blocked
    /\ rolled[1].settled.shadow.last_exit_timestamp > 0
    /\ rolled[1].settled.shadow.bankroll_usd # ShadowPosition_default.bankroll_usd
    /\ rolled[1].settled.validator # None
    /\ rolled[1].settled.validator[1].trades # <<>>

-----------------------------------------------------------------------------
(* Claims about the shadow position *)

\* the last signal handling took an entry
EntryTaken ==
    /\ call # None
    /\ call[1].shadow.active_entry = None
    /\ shadow.active_entry # None

\* C11: whenever an entry is taken, the entry price is the best ask of the
\* chosen token in the snapshot of that tick (YES ask for Long, NO ask for
\* Short), the position holds that token, the stake is 1.0 and exactly 1.0 is
\* deducted from the bankroll.
C11_EntryFillsAtAskOfChosenToken ==
    EntryTaken =>
        LET c == call[1]
            ask == IF c.signal.entry = "Long" THEN c.book.yes.best_ask
                   ELSE c.book.no.best_ask
        IN  /\ c.signal.entry \in {"Long", "Short"}
            /\ shadow.active_entry = Some(c.signal.entry)
            /\ shadow.token_side = Some(IF c.signal.entry = "Long" THEN "Yes" ELSE "No")
            /\ ask # None
            /\ shadow.entry_price = ask[1]
            /\ shadow.position_size_usd = One
            /\ shadow.bankroll_usd = c.shadow.bankroll_usd - One

\* a Short entry filled at the NO ask, which differs from the YES ask and
\* from both midpoints
C11_Witness ==
    /\ EntryTaken
    /\ call[1].signal.entry = "Short"
    /\ shadow.entry_price = 530
    /\ call[1].book.yes.best_ask = Some(510)
    /\ call[1].book.no.midpoint # Some(530)
    /\ call[1].book.yes.midpoint # Some(530)

\* the last signal handling closed the position
ExitTaken ==
    /\ call # None
    /\ ShadowPosition_is_active(call[1].shadow)
    /\ ~ShadowPosition_is_active(shadow)

\* C12: when an exit signal closes an active position, the realized PnL of
\* the close is (bid - entry_price) / entry_price for the best bid of the held
\* token in the snapshot of that tick, the bankroll gets the stake back with
\* that PnL on it, and the trade record carries the bid as exit price; a
\* position that holds a side without an entry price realizes nothing.
C12_ExitRealizesAgainstBidOfHeldToken ==
    ExitTaken =>
        LET c == call[1]
            held == c.shadow
            bid == IF held.token_side = Some("Yes") THEN c.book.yes.best_bid
                   ELSE c.book.no.best_bid
            pnl == IF held.entry_price > 0
                   THEN ((bid[1] - held.entry_price) * One) \div held.entry_price
                   ELSE 0
        IN  /\ c.signal.exit = "FullExit"
            /\ bid # None
            /\ shadow.realized_pnl = held.realized_pnl + (pnl * held.size) \div One
            /\ shadow.bankroll_usd = held.bankroll_usd + held.position_size_usd
                                     + (pnl * held.position_size_usd) \div One
            /\ validator # None =>
                  /\ Last(validator[1].trades).exit_price = bid[1]
                  /\ Last(validator[1].trades).entry_price = held.entry_price
                  /\ Last(validator[1].trades).pnl_percent = (pnl * held.size) \div One

\* a NO position entered at the NO ask 0.53 is closed at the NO bid 0.52 while
\* the YES bid is 0.50
C12_Witness ==
    /\ ExitTaken
    /\ call[1].shadow.token_side = Some("No")
    /\ call[1].shadow.entry_price = 530
    /\ call[1].book.yes.best_bid = Some(500)
    /\ call[1].book.no.best_bid = Some(520)
    /\ shadow.realized_pnl - call[1].shadow.realized_pnl = (-10 * One) \div 530

\* seconds left in the market of the last signal handling
TimeRemaining == Max(call[1].market.end_time - now, 0)

\* one of the three conditions of an entry fails at the last signal handling
GateFails ==
    \/ call[1].shadow.bankroll_usd < One
    \/ now - call[1].shadow.last_exit_timestamp < 15
    \/ TimeRemaining < 30
    \/ TimeRemaining > 280

\* C13: an entry is taken only with a bankroll of at least 1.0, at least 15
\* seconds after the last exit and with 30 to 280 seconds remaining in the
\* market; when one of the three fails for an inactive position, the signal
\* handling leaves the whole position, bankroll included, unchanged.
C13_EntryOnlyThroughBankrollCooldownAndTimeGates ==
    /\ EntryTaken => ~GateFails
    /\ (call # None /\ ~ShadowPosition_is_active(call[1].shadow) /\ GateFails) =>
          shadow = call[1].shadow

\* a Short signal passes the filter 15 seconds after the exit with 260
\* seconds remaining and an open NO side, and is dropped for the bankroll alone
C13_Witness ==
    /\ call # None
    /\ call[1].passed.entry = "Short"
    /\ ~ShadowPosition_is_active(call[1].shadow)
    /\ ~call[1].shadow.no_blocked
    /\ call[1].shadow.bankroll_usd < One
    /\ now - call[1].shadow.last_exit_timestamp = 15
    /\ TimeRemaining = 260
    /\ shadow = call[1].shadow

\* the last signal handling of a validation session had an entry signal that
\* the filter rejected
FilterRejected ==
    /\ call # None
    /\ call[1].validator # None
    /\ call[1].signal.entry # "None"
    /\ trade_allowed(IF call[1].signal.entry = "Short" THEN call[1].book.no ELSE call[1].book.yes, TimeRemaining, now - (call[1].market.end_time - FIVE_MINUTES_SECONDS), unwrap_or(call[1].book.yes.best_ask, 0), unwrap_or(call[1].book.no.best_ask, 0)) # "Ok"

\* C15: in a validation session every filter rejection adds exactly one to
\* entries_blocked_by_filter and hands the shadow position a signal whose
\* entry is None, so that no entry is taken on it; every entry signal adds one
\* to signals_generated; and in every state
\* entries_taken + entries_blocked_by_filter <= signals_generated.
C15_RejectionCountedOnceAndEntryDropped ==
    /\ validator # None =>
          validator[1].entries_taken + validator[1].entries_blocked_by_filter
              <= validator[1].signals_generated
    /\ call # None /\ call[1].validator # None /\ validator # None =>
          /\ validator[1].signals_generated = call[1].validator[1].signals_generated
                 + IF call[1].signal.entry # "None" THEN 1 ELSE 0
          /\ validator[1].entries_blocked_by_filter
                 = call[1].validator[1].entries_blocked_by_filter
                   + IF FilterRejected THEN 1 ELSE 0
    /\ FilterRejected =>
          /\ call[1].passed = [call[1].signal EXCEPT !.entry = "None"]
          /\ shadow.active_entry = call[1].shadow.active_entry
          /\ shadow.token_side = call[1].shadow.token_side
          /\ shadow.bankroll_usd = call[1].shadow.bankroll_usd
          /\ validator[1].entries_taken = call[1].validator[1].entries_taken

\* a rejection in a session that has also taken an entry
C15_Witness ==
    /\ FilterRejected
    /\ validator[1].entries_blocked_by_filter >= 1
    /\ validator[1].entries_taken >= 1
    /\ validator[1].signals_generated
           = validator[1].entries_taken + validator[1].entries_blocked_by_filter

-----------------------------------------------------------------------------
(* Claims about the entry filter *)

\* the five stated grounds of rejection, in exact decimal arithmetic
LacksQuote(c) == c.snapshot.best_bid = None \/ c.snapshot.best_ask = None
SpreadAboveCap(c) == 10 * (c.snapshot.best_ask[1] - c.snapshot.best_bid[1]) > Max(c.snapshot.best_ask[1], 300)
AskOutOfRange(c) == c.snapshot.best_ask[1] < 350 \/ c.snapshot.best_ask[1] > 650
ComplementOff(c) == Abs(c.yes_ask + c.no_ask - 1000) > 100
TooYoung(c) == c.contract_age < 15

StatedGround(c) ==
    \/ LacksQuote(c)
    \/ ~LacksQuote(c) /\ (SpreadAboveCap(c) \/ AskOutOfRange(c))
    \/ ComplementOff(c)
    \/ TooYoung(c)

Filtered == call # None /\ call[1].result # None

\* C14: trade_allowed rejects whenever the side lacks a bid or an ask, or
\* ask - bid exceeds max(10% of ask, 0.03), or the ask lies outside
\* [0.35, 0.65], or |yes_ask + no_ask - 1.0| > 0.10, or the contract is
\* younger than 15 seconds; and it accepts when none of these holds and at
\* least 30 seconds remain
C14_FilterRejectsOnStatedGroundsOnly ==
    Filtered =>
        /\ StatedGround(call[1]) => call[1].result[1] # "Ok"
        /\ ~StatedGround(call[1]) /\ call[1].time_remaining >= 30
              => call[1].result[1] = "Ok"

\* the half of C14 that holds: every stated ground rejects, and so does a
\* book of yes_ask = no_ask = 0.99 whatever the spread and the times
C14_StatedGroundsReject ==
    Filtered =>
        /\ StatedGround(call[1]) => call[1].result[1] # "Ok"
        /\ call[1].yes_ask = 990 /\ call[1].no_ask = 990 => call[1].result[1] # "Ok"

\* a book at the cap exactly: spread 0.04 on an ask of 0.40, asks summing to 1
C14_AtTheCap ==
    /\ Filtered
    /\ call[1].snapshot.best_bid = Some(360) /\ call[1].snapshot.best_ask = Some(400)
    /\ call[1].yes_ask = 400 /\ call[1].no_ask = 600
    /\ call[1].time_remaining = 60 /\ call[1].contract_age = 30
    /\ call[1].result = Some("WideSpread")

-----------------------------------------------------------------------------
(* Claims about the indicator engine *)

\* the last candle fed came more than 120 seconds after the candle before it
GapFed ==
    /\ call # None
    /\ call[1].engine.last_candle_time # None
    /\ call[1].candle.start_time - call[1].engine.last_candle_time[1] > 120

ValidClose(close) == is_finite(close) /\ close > 0

\* C16: when update receives a candle whose start_time is more than 120
\* seconds after that of the candle before it, the engine and the returned
\* state equal those of a fresh engine fed only this candle; for a valid close
\* both EMAs are the close, RSI is 50, the slope is None and is_ready is false
C16_GapResetsBeforeProcessing ==
    GapFed =>
        /\ ind_5s = IndicatorEngine_update(IndicatorEngine_new, call[1].candle)[1]
        /\ state_5s = IndicatorEngine_update(IndicatorEngine_new, call[1].candle)[2]
        /\ ~IndicatorEngine_is_ready(ind_5s)
        /\ ind_5s.prev_ema9 = None /\ ind_5s.prev_ema21 = None
        /\ ValidClose(call[1].candle.close) =>
              /\ state_5s = IndicatorState(Some(call[1].candle.close), Some(call[1].candle.close), Some(50000), None)
              /\ ind_5s.ema9.warmup_count = 1
              /\ ind_5s.slope.closes = <<call[1].candle.close>>

\* a gap after four closes that had moved the EMAs away from the new close
C16_Witness ==
    /\ GapFed
    /\ ValidClose(call[1].candle.close)
    /\ call[1].engine.ema9.warmup_count >= 4
    /\ call[1].engine.ema9.value # Some(call[1].candle.close)
    /\ call[1].engine.rsi14.value # Some(50000)
    /\ call[1].engine.slope.value # None

\* C17: update with a candle whose close is NaN, infinite or <= 0.0001 leaves
\* the engine as it was (sub-indicators, warm-up counts, previous-EMA memory
\* and last candle time) and returns the state returned before
C17_InvalidCloseIsNoOp ==
    call # None /\ ~ValidClose(call[1].candle.close) =>
        /\ ind_5s = call[1].engine
        /\ state_5s = IndicatorEngine_get_state(call[1].engine)

\* the sub-indicators survive an invalid close that comes within 120 seconds
C17_SubIndicatorsKeptWithoutGap ==
    call # None /\ ~ValidClose(call[1].candle.close) /\ ~GapFed =>
        /\ [ind_5s EXCEPT !.last_candle_time = None] = [call[1].engine EXCEPT !.last_candle_time = None]
        /\ state_5s = IndicatorEngine_get_state(call[1].engine)

\* an invalid close after a gap wiped a warm engine
C17_WipedByInvalidClose ==
    /\ GapFed
    /\ ~ValidClose(call[1].candle.close)
    /\ call[1].engine.ema9.warmup_count >= 2
    /\ state_5s = IndicatorState_default

EmaOrder(e) ==
    IF e.ema9.value = None \/ e.ema21.value = None THEN "None"
    ELSE IF e.ema9.value[1] > e.ema21.value[1] THEN "Above"
    ELSE IF e.ema9.value[1] < e.ema21.value[1] THEN "Below"
    ELSE "Equal"

\* C18: after any sequence of updates ema_cross_up() is true exactly when the
\* engine is ready and EMA9 was <= EMA21 before the most recent update and is
\* > EMA21 after it; ema_cross_down() is the mirror image; neither is true
\* when the most recent update did not change the order of the EMAs
C18_CrossExactlyOnOrderChange ==
    call # None =>
        /\ IndicatorEngine_ema_cross_up(ind_5s)
              <=> /\ IndicatorEngine_is_ready(ind_5s)
                  /\ EmaOrder(call[1].engine) \in {"Below", "Equal"}
                  /\ EmaOrder(ind_5s) = "Above"
        /\ IndicatorEngine_ema_cross_down(ind_5s)
              <=> /\ IndicatorEngine_is_ready(ind_5s)
                  /\ EmaOrder(call[1].engine) \in {"Above", "Equal"}
                  /\ EmaOrder(ind_5s) = "Below"
        /\ EmaOrder(call[1].engine) = EmaOrder(ind_5s)
              => /\ ~IndicatorEngine_ema_cross_up(ind_5s)
                 /\ ~IndicatorEngine_ema_cross_down(ind_5s)

\* the cross is still reported after an update that the engine ignored
C18_StaleCross ==
    /\ call # None
    /\ ind_5s = call[1].engine
    /\ IndicatorEngine_ema_cross_up(ind_5s)

-----------------------------------------------------------------------------
(* Claims about the oscillators *)

\* some step of the closes q went up / went down
Rose(q) == \E i \in 1..(Len(q) - 1) : q[i + 1] > q[i]
Fell(q) == \E i \in 1..(Len(q) - 1) : q[i + 1] < q[i]

\* C19: for any sequence of closes fed to Rsi.update the first update outputs
\* exactly 50 and every later output lies in [0, 100]: 50 when both averages
\* are 0, 100 when only the average loss is 0, 0 when only the average gain
\* is 0.  The averages are 0 exactly when no step rose, or fell, so far.
C19_RsiNeutralFirstThenBounded ==
    call # None /\ call[1].n >= 1 =>
        LET c == call[1]
            ag == c.rsi.avg_gain[1]
            al == c.rsi.avg_loss[1]
        IN  /\ c.rsi_out # None
            /\ c.n = 1 => c.rsi_out = Some(50000)
            /\ c.rsi_out[1] >= 0 /\ c.rsi_out[1] <= 100000
            /\ ag >= 0 /\ al >= 0
            /\ (ag = 0) = ~Rose(c.history)
            /\ (al = 0) = ~Fell(c.history)
            /\ ag = 0 /\ al = 0 => c.rsi_out = Some(50000)
            /\ ag > 0 /\ al = 0 => c.rsi_out = Some(100000)
            /\ ag = 0 /\ al > 0 => c.rsi_out = Some(0)
            /\ ag > 0 /\ al > 0 => c.rsi_out[1] > 0 /\ c.rsi_out[1] < 100000

\* past the period, after rises only: the smoothed average loss is still 0
C19_Witness ==
    /\ call # None
    /\ call[1].rsi.period = 2
    /\ call[1].n = 4
    /\ call[1].history = <<20, 500, 500, 980>>
    /\ call[1].rsi_out = Some(100000)

\* the last k elements of q
LastOf(q, k) == SubSeq(q, Len(q) - k + 1, Len(q))

\* C20: MomentumSlope.update returns None while fewer than 2 closes have been
\* fed, keeps at most window closes, the most recent ones, and returns
\* exactly 0 whenever all closes in the window are identical
C20_SlopeNoneThenWindowedAndFlatIsZero ==
    call # None /\ call[1].n >= 1 =>
        LET c == call[1]
        IN  /\ c.n < 2 => c.slope_out = None
            /\ c.n >= 2 => c.slope_out # None
            /\ Len(c.slope.closes) <= c.slope.window
            /\ c.slope.closes = LastOf(c.history, Min(c.n, c.slope.window))
            /\ c.n >= 2 /\ (\A i \in 1..Len(c.slope.closes) : c.slope.closes[i] = c.slope.closes[1])
                  => c.slope_out = Some(0)

\* a flat window after an older close that differed and has been dropped
C20_Witness ==
    /\ call # None
    /\ call[1].slope.window = 2
    /\ call[1].history = <<20, 980, 500, 500>>
    /\ call[1].slope.closes = <<500, 500>>
    /\ call[1].slope_out = Some(0)

-----------------------------------------------------------------------------
(* Claims about the signal engine of src/src/bot/signal.rs *)

\* an update has returned and its SignalState is still at hand
SignalReturned == call # None /\ call[1].state # None

\* the update before returned an entry and this one repeats its inputs: the
\* close is the entry price and the newest close of the history, and the
\* three timeframes ask for the held side again
RepeatsEntry ==
    /\ SignalReturned
    /\ call[1].previous # None
    /\ call[1].previous[1].entry # "None"
    /\ call[1].engine.active_position = Some(call[1].previous[1].entry)
    /\ call[1].engine.entry_price = Some(call[1].current_price)
    /\ call[1].engine.recent_5s_closes # <<>>
    /\ call[1].engine.recent_5s_closes[Len(call[1].engine.recent_5s_closes)] = call[1].current_price
    /\ call[1].state[1].bias = call[1].engine.active_position[1]
    /\ call[1].state[1].acceleration
    /\ call[1].five_sec.momentum_slope # None
    /\ Abs(call[1].five_sec.momentum_slope[1]) > 1000

\* C21: SignalEngine.update returns no entry (Long or Short) when the engine
\* holds a position at the call; the engine holds a new side or a new entry
\* price after the call only if it held no position at the call; so an update
\* that repeats the inputs of the entry returns no entry and does not replace
\* the recorded entry price (an exit of the same update may clear it).
C21_NoEntryWhileActive ==
    SignalReturned =>
        /\ call[1].engine.active_position # None => call[1].state[1].entry = "None"
        /\ call[1].state[1].entry # "None" =>
              /\ signal_engine.active_position = Some(call[1].state[1].entry)
              /\ signal_engine.entry_price = Some(call[1].current_price)
        /\ call[1].engine.active_position # None /\ signal_engine.active_position # None =>
              /\ signal_engine.active_position = call[1].engine.active_position
              /\ signal_engine.entry_price = call[1].engine.entry_price
        /\ call[1].engine.active_position # None => signal_engine.entry_price \in {call[1].engine.entry_price, None}
        /\ RepeatsEntry => call[1].state[1].entry = "None"

C21_Witness == RepeatsEntry /\ signal_engine.entry_price = call[1].engine.entry_price

\* C22: when SignalEngine.update returns FullExit or StopLoss the engine holds
\* no side, no entry price and scale stage 0 as the call returns; and in every
\* state reached from a new engine the side is None exactly when the entry
\* price is None, and the scale stage is 0 whenever no position is held.
C22_ExitClearsThePosition ==
    /\ SignalReturned /\ call[1].state[1].exit \in {"FullExit", "StopLoss"} =>
          /\ signal_engine.active_position = None
          /\ signal_engine.entry_price = None
          /\ signal_engine.scale_stage = 0
    /\ signal_engine.active_position = None <=> signal_engine.entry_price = None
    /\ signal_engine.active_position = None => signal_engine.scale_stage = 0

C22_Witness ==
    /\ SignalReturned
    /\ call[1].state[1].exit = "StopLoss"
    /\ call[1].engine.scale_stage > 0
    /\ signal_engine.active_position = None

\* the 1-minute state has all four values and they point the same way
AgreeOnLong(st) ==
    /\ st.ema9 # None /\ st.ema21 # None /\ st.rsi14 # None /\ st.momentum_slope # None
    /\ st.ema9[1] > st.ema21[1] /\ st.rsi14[1] > 55000 /\ st.momentum_slope[1] > 0

AgreeOnShort(st) ==
    /\ st.ema9 # None /\ st.ema21 # None /\ st.rsi14 # None /\ st.momentum_slope # None
    /\ st.ema9[1] < st.ema21[1] /\ st.rsi14[1] < 45000 /\ st.momentum_slope[1] < 0

\* C25: when the 1-minute state does not agree on Long nor on Short (or lacks
\* a value), SignalEngine.update reports bias Neutral, acceleration false and
\* entry None, and an engine without a position is left without one, whatever
\* the 15-second state, the 5-second state and the price are.
C25_NeutralBiasNeverEnters ==
    SignalReturned /\ ~AgreeOnLong(call[1].one_min) /\ ~AgreeOnShort(call[1].one_min) =>
        /\ call[1].state[1].bias = "Neutral"
        /\ ~call[1].state[1].acceleration
        /\ call[1].state[1].entry = "None"
        /\ call[1].engine.active_position = None => signal_engine.active_position = None

\* the EMAs and the RSI say Long and only the slope disagrees, while the
\* faster timeframes and a close above the full history ask for a Long
C25_Witness ==
    /\ SignalReturned
    /\ call[1].one_min.momentum_slope # None
    /\ call[1].one_min.momentum_slope[1] < 0
    /\ call[1].one_min.ema9[1] > call[1].one_min.ema21[1]
    /\ call[1].one_min.rsi14[1] > 55000
    /\ check_acceleration("Long", call[1].fifteen_sec)
    /\ call[1].five_sec.momentum_slope # None
    /\ call[1].five_sec.momentum_slope[1] > 1000
    /\ call[1].engine.active_position = None
    /\ Len(call[1].engine.recent_5s_closes) = 3
    /\ call[1].current_price > signal_engine.last_5s_high
    /\ call[1].state[1].entry = "None"
    /\ signal_engine.active_position = None

\* the 1-minute slope of the update points against the side the engine holds
SlopeFlipped ==
    /\ SignalReturned
    /\ call[1].engine.active_position # None
    /\ call[1].one_min.momentum_slope # None
    /\ \/ call[1].engine.active_position[1] = "Long" /\ call[1].one_min.momentum_slope[1] < 0
       \/ call[1].engine.active_position[1] = "Short" /\ call[1].one_min.momentum_slope[1] > 0

\* (price - entry) / entry of the update, in tenths of the entry price, is at
\* least (at most) the given number of tenths in the held side's favour
FavourableBy(tenths) ==
    IF call[1].engine.active_position[1] = "Long"
    THEN 10 * (call[1].current_price - call[1].engine.entry_price[1]) >= tenths * call[1].engine.entry_price[1]
    ELSE 10 * (call[1].engine.entry_price[1] - call[1].current_price) >= tenths * call[1].engine.entry_price[1]

AdverseBy(tenths) ==
    IF call[1].engine.active_position[1] = "Long"
    THEN 10 * (call[1].engine.entry_price[1] - call[1].current_price) >= tenths * call[1].engine.entry_price[1]
    ELSE 10 * (call[1].current_price - call[1].engine.entry_price[1]) >= tenths * call[1].engine.entry_price[1]

\* C27: while a Long is held and the 1-minute slope is < 0 (a Short is held
\* and the slope is > 0) SignalEngine.update returns FullExit and clears the
\* position, in profit or not: never the StopLoss, ScaleOut25 or ScaleOut50
\* that the price of the same update would otherwise give.
C27_SlopeFlipExitsFirst ==
    SlopeFlipped =>
        /\ call[1].state[1].exit = "FullExit"
        /\ signal_engine.active_position = None
        /\ signal_engine.entry_price = None

\* a flip at a price that is 40% in profit, with no scale-out taken so far
C27_Witness ==
    /\ SlopeFlipped
    /\ FavourableBy(4)
    /\ call[1].engine.scale_stage = 0
    /\ call[1].current_price < 940
    /\ call[1].current_price > 60
    /\ call[1].state[1].exit = "FullExit"

\* a flip at a price that is at the stop-loss
C27_WitnessAtStopLoss ==
    /\ SlopeFlipped
    /\ AdverseBy(1)
    /\ call[1].state[1].exit = "FullExit"

\* C29: while a Long is held and the 1-minute slope does not point against
\* it, an update at a price at or below 90% of the entry price returns
\* StopLoss and clears the position; while a Short is held, so does an update
\* at a price at or above 110% of the entry price.
C29_StopLossAtTenPercent ==
    SignalReturned /\ call[1].engine.active_position # None /\ ~SlopeFlipped /\ AdverseBy(1) =>
        /\ call[1].state[1].exit = "StopLoss"
        /\ signal_engine.active_position = None
        /\ signal_engine.entry_price = None

\* a Short entered at 0.50 and stopped at exactly 0.55
C29_Witness ==
    /\ SignalReturned
    /\ call[1].engine.active_position = Some("Short")
    /\ ~SlopeFlipped
    /\ 10 * (call[1].current_price - call[1].engine.entry_price[1]) = call[1].engine.entry_price[1]
    /\ call[1].state[1].exit = "StopLoss"
    /\ signal_engine.active_position = None

\* a Long entered at 0.50 and stopped at exactly 0.45
C29_WitnessLong ==
    /\ SignalReturned
    /\ call[1].engine.active_position = Some("Long")
    /\ ~SlopeFlipped
    /\ 10 * (call[1].engine.entry_price[1] - call[1].current_price) = call[1].engine.entry_price[1]
    /\ call[1].state[1].exit = "StopLoss"
    /\ signal_engine.active_position = None

\* the engine holds a position at the call and no full exit outranks the
\* scale-outs: the 1-minute slope does not point against the held side and
\* the price is short of the 0.94 ceiling (a Long) or the 0.06 floor (a Short)
ScaleOutsDecide ==
    /\ SignalReturned
    /\ call[1].engine.active_position # None
    /\ ~SlopeFlipped
    /\ call[1].engine.active_position[1] = "Long" => call[1].current_price < 940
    /\ call[1].engine.active_position[1] = "Short" => call[1].current_price > 60

\* C28 as stated: within one position the first update whose favourable PnL
\* has reached +20% returns ScaleOut25 (stage 0 to 1) and the first whose PnL
\* has reached +40% returns ScaleOut50 (stage to 2); neither is returned twice,
\* the stage never decreases while the position is open, and an update at the
\* price of the scale-out just returned returns no exit.
C28_ScaleOutAtEachMilestone ==
    /\ SignalReturned /\ call[1].engine.active_position # None /\ call[1].engine.scale_stage = 0 /\ FavourableBy(2) =>
          call[1].state[1].exit = "ScaleOut25" /\ signal_engine.scale_stage = 1
    /\ SignalReturned /\ call[1].engine.active_position # None /\ call[1].engine.scale_stage < 2 /\ FavourableBy(4) =>
          call[1].state[1].exit = "ScaleOut50" /\ signal_engine.scale_stage = 2
    /\ call # None => \A i, j \in DOMAIN call[1].emitted : call[1].emitted[i] = call[1].emitted[j] => i = j
    /\ SignalReturned /\ call[1].engine.active_position # None /\ signal_engine.active_position # None =>
          signal_engine.scale_stage >= call[1].engine.scale_stage
    /\ (/\ SignalReturned
        /\ call[1].previous # None
        /\ call[1].previous[1].exit \in {"ScaleOut25", "ScaleOut50"}
        /\ call[1].current_price = call[1].engine.recent_5s_closes[Len(call[1].engine.recent_5s_closes)])
       => call[1].state[1].exit = "None"

\* C28, amended: within one position, the first update whose favourable PnL is at least
\* +20% (and short of +40%) returns ScaleOut25 and takes the stage from 0 to
\* 1, and the first update whose PnL is at least +40% returns ScaleOut50 and
\* takes the stage to 2 (full exits of the same update outrank both); neither
\* is returned twice for one position, the stage never decreases while the
\* position stays open, and an update at the price of the scale-out just
\* returned returns no exit.
C28_ScaleOutsOncePerPosition ==
    /\ ScaleOutsDecide /\ call[1].engine.scale_stage = 0 /\ FavourableBy(2) /\ ~FavourableBy(4) =>
          call[1].state[1].exit = "ScaleOut25" /\ signal_engine.scale_stage = 1
    /\ ScaleOutsDecide /\ call[1].engine.scale_stage < 2 /\ FavourableBy(4) =>
          call[1].state[1].exit = "ScaleOut50" /\ signal_engine.scale_stage = 2
    /\ SignalReturned /\ call[1].state[1].exit = "ScaleOut25" =>
          call[1].engine.scale_stage = 0 /\ FavourableBy(2)
    /\ SignalReturned /\ call[1].state[1].exit = "ScaleOut50" =>
          call[1].engine.scale_stage < 2 /\ FavourableBy(4)
    /\ call # None => \A i, j \in DOMAIN call[1].emitted : call[1].emitted[i] = call[1].emitted[j] => i = j
    /\ SignalReturned /\ call[1].engine.active_position # None /\ signal_engine.active_position # None =>
          signal_engine.scale_stage >= call[1].engine.scale_stage
    /\ (/\ SignalReturned
        /\ call[1].previous # None
        /\ call[1].previous[1].exit \in {"ScaleOut25", "ScaleOut50"}
        /\ call[1].current_price = call[1].engine.recent_5s_closes[Len(call[1].engine.recent_5s_closes)]
        /\ ~SlopeFlipped)
       => call[1].state[1].exit = "None"

\* the sequence of tests::scale_out_sequence: ScaleOut25, then ScaleOut50
C28_Witness ==
    /\ SignalReturned
    /\ call[1].emitted = <<"ScaleOut25", "ScaleOut50">>
    /\ call[1].state[1].exit = "ScaleOut50"
    /\ signal_engine.scale_stage = 2

\* an update at the price of the ScaleOut25 just returned
C28_WitnessUnchangedPrice ==
    /\ SignalReturned
    /\ call[1].previous # None
    /\ call[1].previous[1].exit = "ScaleOut25"
    /\ call[1].current_price = call[1].engine.recent_5s_closes[Len(call[1].engine.recent_5s_closes)]
    /\ call[1].state[1].exit = "None"

\* +40% reached at stage 0: ScaleOut50 without a ScaleOut25 before it
C28_WitnessJump ==
    /\ SignalReturned
    /\ call[1].engine.scale_stage = 0
    /\ call[1].emitted = <<"ScaleOut50">>

\* C38: one update never returns both an entry and an exit; an exit is only
\* returned for a position the engine held before the call, and an entry
\* only when it held none, so the position an update opens is still open
\* when the update returns.
C38_NeverEntryAndExitTogether ==
    SignalReturned =>
        /\ ~(call[1].state[1].entry # "None" /\ call[1].state[1].exit # "None")
        /\ call[1].state[1].exit # "None" => call[1].engine.active_position # None
        /\ call[1].state[1].entry # "None" =>
              /\ call[1].engine.active_position = None
              /\ signal_engine.active_position = Some(call[1].state[1].entry)
              /\ signal_engine.entry_price = Some(call[1].current_price)

\* a Long is opened at 0.95, above the 0.94 ceiling, and no exit is returned
\* with it
C38_Witness ==
    /\ SignalReturned
    /\ call[1].state[1].entry = "Long"
    /\ call[1].state[1].exit = "None"
    /\ call[1].current_price = 950
    /\ signal_engine.active_position = Some("Long")

\* the update after an entry at 0.95 returns the exit and no entry
C38_WitnessExitNext ==
    /\ SignalReturned
    /\ call[1].engine.entry_price = Some(950)
    /\ call[1].state[1].exit = "FullExit"
    /\ call[1].state[1].entry = "None"
    /\ signal_engine.active_position = None

-----------------------------------------------------------------------------
(* Claims about the signal engine that watch_btc_market calls *)

\* an update of that engine has returned and its SignalState is still at hand
ExpansionReturned == call # None /\ call[1].state # None

\* the last n elements of q
RECURSIVE LastN(_, _)
LastN(q, n) == IF Len(q) <= n THEN q ELSE LastN(Tail(q), n)

EntryGateOpen ==
    /\ call[1].current_price >= 350
    /\ call[1].current_price <= 650
    /\ Len(call[1].engine.window) = 5
    /\ state_5s.momentum_slope # None
    /\ state_1m.momentum_slope # None => Abs(state_1m.momentum_slope[1]) >= 500

FastSlopeAgainst ==
    /\ call[1].engine.active_side # None
    /\ state_5s.momentum_slope # None
    /\ \/ call[1].engine.active_side[1] = "Long" /\ state_5s.momentum_slope[1] < 0
       \/ call[1].engine.active_side[1] = "Short" /\ state_5s.momentum_slope[1] > 0

C26_WitnessKept ==
    /\ ExpansionReturned
    /\ call[1].engine.active_side = Some("Long")
    /\ state_5s.momentum_slope = Some(0)
    /\ call[1].state[1].exit = "None"
    /\ signal_engine.active_side = Some("Long")

-----------------------------------------------------------------------------
(* Claims about the exits of the shadow position *)

\* the position held at the last signal handling, and the bid of its token
HeldWithBid ==
    /\ call # None
    /\ ShadowPosition_is_active(call[1].shadow)
    /\ call[1].signal.entry = "None"
    /\ best_bid_price(IF call[1].shadow.token_side = Some("Yes") THEN call[1].book.yes ELSE call[1].book.no) # None

HeldBid == best_bid_price(IF call[1].shadow.token_side = Some("Yes") THEN call[1].book.yes ELSE call[1].book.no)[1]

\* C30: a held shadow position whose token has a bid is cleared, its PnL at
\* that bid going into the bankroll, when the signal engine emits FullExit or
\* StopLoss, and part of it is realized when the engine emits ScaleOut25 or
\* ScaleOut50; no exit variant leaves the position as it was.
C30_EveryExitReachesThePosition ==
    HeldWithBid =>
        /\ call[1].signal.exit \in {"FullExit", "StopLoss"} =>
              /\ ~ShadowPosition_is_active(shadow)
              /\ shadow.bankroll_usd = call[1].shadow.bankroll_usd + call[1].shadow.position_size_usd + Mul(ShadowPosition_pnl(call[1].shadow, HeldBid), call[1].shadow.position_size_usd)
        /\ call[1].signal.exit \in {"ScaleOut25", "ScaleOut50"} =>
              /\ ShadowPosition_is_active(shadow)
              /\ shadow.size < call[1].shadow.size
              /\ shadow.realized_pnl # call[1].shadow.realized_pnl \/ ShadowPosition_pnl(call[1].shadow, HeldBid) = 0
        /\ call[1].signal.exit # "None" => shadow # call[1].shadow

\* the part of C30 the code keeps: FullExit with a bid clears the position
C30_FullExitClears ==
    HeldWithBid /\ call[1].signal.exit = "FullExit" =>
        /\ ~ShadowPosition_is_active(shadow)
        /\ shadow.bankroll_usd = call[1].shadow.bankroll_usd + call[1].shadow.position_size_usd + Mul(ShadowPosition_pnl(call[1].shadow, HeldBid), call[1].shadow.position_size_usd)

\* a StopLoss handed over while a position is held and its token has a bid:
\* the position is as it was
C30_StopLossIgnored ==
    /\ HeldWithBid
    /\ call[1].signal.exit = "StopLoss"
    /\ shadow = call[1].shadow

-----------------------------------------------------------------------------
(* Claims about the validation session *)

\* the trades of the session that were recorded under a market's slug
TradesOf(v, slug) == SelectSeq(v.trades, LAMBDA r : r.market_slug = slug)

RECURSIVE SumPnl(_)
SumPnl(trades) ==
    IF trades = <<>> THEN 0 ELSE trades[1].pnl_percent + SumPnl(Tail(trades))

\* C31: every MarketRecord describes only the trades of its own contract:
\* its trade count, win count and loss count are those of the trades
\* recorded under its slug, and its total PnL is the sum of the PnL of
\* exactly those trades, for every market of the session.
C31_MarketRecordDescribesItsContract ==
    validator # None =>
        \A k \in 1..Len(validator[1].markets) :
            LET m == validator[1].markets[k]
                own == TradesOf(validator[1], m.market_slug)
            IN  /\ m.trades = Len(own)
                /\ m.wins = CountWins(own)
                /\ m.losses = CountLosses(own)
                /\ m.total_pnl_percent = SumPnl(own)

\* the part of C31 the code keeps: the counts of every market and the total
\* of the first
C31_CountsAreOfTheContract ==
    validator # None =>
        \A k \in 1..Len(validator[1].markets) :
            LET m == validator[1].markets[k]
                own == TradesOf(validator[1], m.market_slug)
            IN  /\ m.trades = Len(own)
                /\ m.wins = CountWins(own)
                /\ m.losses = CountLosses(own)
                /\ k = 1 => m.total_pnl_percent = SumPnl(own)

\* the second market's record carries the PnL of both markets: each market
\* had one Long entered at 0.51 and settled at 0.0
C31_SecondMarketCarriesTheFirst ==
    /\ validator # None
    /\ Len(validator[1].markets) = 2
    /\ validator[1].markets[1].trades = 1
    /\ validator[1].markets[2].trades = 1
    /\ validator[1].markets[1].total_pnl_percent = -One
    /\ SumPnl(TradesOf(validator[1], validator[1].markets[2].market_slug)) = -One
    /\ validator[1].markets[2].total_pnl_percent = -2 * One

\* the validation run has finalized max_markets markets
RunComplete ==
    validator # None /\ validator[1].completed_markets = validator[1].max_markets

\* C32: a validation run with bound N ends right after the N-th market is
\* finalized: completed_markets never exceeds N; once it is N the loop has
\* ended with the locals as finalize_market left them, the expiring market
\* still the watched one and no tick processed; nothing happens after the
\* end; and with the ticker firing the end is eventually reached.
C32_ValidationRunEndsAtTheBound ==
    /\ [](validator # None =>
             /\ validator[1].completed_markets <= validator[1].max_markets
             /\ RunComplete =>
                   /\ pc = "done"
                   /\ rolled # None
                   /\ Locals = rolled[1].settled
                   /\ watched = rolled[1].before.watched
                   /\ call = None)
    /\ [][pc # "done"]_vars
    /\ <>(pc = "done")

\* a run over two markets has ended at the rollover of the second, having
\* gone on after the first
C32_Witness ==
    /\ RunComplete
    /\ pc = "done"
    /\ validator[1].max_markets = 2
    /\ Len(validator[1].markets) = 2
    /\ validator[1].trades # <<>>
    /\ now >= 2 * FIVE_MINUTES_SECONDS

-----------------------------------------------------------------------------
(* Claims about the select of the orchestrator loop *)

\* C33: when the interrupt and the ticker are both ready at the same select
\* the interrupt branch is the one taken: once an interrupt is pending the
\* next step of the loop ends it, and no tick is processed.
C33_InterruptWinsTheSelect ==
    [][pc = "interrupted" => (pc' = "done" /\ now' = now /\ shadow' = shadow /\ call' = call)]_vars

\* the part of C33 the code keeps: the ctrl_c arm ends the loop without
\* touching the position or the tracker
C33_InterruptArmEndsTheLoop ==
    [][(pc = "interrupted" /\ now' = now) => (pc' = "done" /\ shadow' = shadow /\ validator' = validator)]_vars

-----------------------------------------------------------------------------
(* Claims about the order of the rollover *)

\* the last step was a rollover of a validation run that found a position open
SettledAtRollover ==
    /\ rolled # None
    /\ rolled[1].before.validator # None
    /\ ShadowPosition_is_active(rolled[1].before.shadow)

\* C34: a rollover settles the open position, finalizes the record of the
\* expiring market, rediscovers and then resets: the settlement trade is
\* recorded under the expiring market's slug while that market is still the
\* watched one and the position still held, it is counted in the
\* MarketRecord of that market, the in-progress list is empty when the next
\* market starts, and every trade in progress carries the slug of the
\* watched market.
C34_SettlementCountedInExpiringMarket ==
    /\ SettledAtRollover =>
          LET r == rolled[1]
              v0 == r.before.validator[1]
              v1 == r.settled.validator[1]
          IN  /\ Len(v1.trades) = Len(v0.trades) + 1
              /\ IsPrefix(v0.trades, v1.trades)
              /\ Last(v1.trades).market_slug = r.before.watched.slug
              /\ Last(v1.trades).exit_price \in {0, 1000}
              /\ Len(v1.markets) = Len(v0.markets) + 1
              /\ Last(v1.markets).market_slug = r.before.watched.slug
              /\ Last(v1.markets).trades = Len(v0.current_market_trades) + 1
              /\ v1.current_market_trades = <<>>
              /\ r.settled.watched = r.before.watched
              /\ r.settled.shadow.token_side = r.before.shadow.token_side
              /\ pc = "select" =>
                    /\ r.after.watched.slug # r.before.watched.slug
                    /\ r.after.validator = r.settled.validator
                    /\ ~ShadowPosition_is_active(r.after.shadow)
    /\ validator # None =>
          \A i \in 1..Len(validator[1].current_market_trades) :
              validator[1].current_market_trades[i].market_slug = watched.slug

\* a position entered in the second market of a run is settled at its
\* rollover and counted in the second MarketRecord, and the run goes on
C34_Witness ==
    /\ SettledAtRollover
    /\ pc = "select"
    /\ Len(rolled[1].settled.validator[1].markets) = 2
    /\ Last(rolled[1].settled.validator[1].markets).trades = 1
    /\ Last(rolled[1].settled.validator[1].trades).market_slug = 2 * FIVE_MINUTES_SECONDS
    /\ watched.slug = 3 * FIVE_MINUTES_SECONDS

-----------------------------------------------------------------------------
(* Claims about the bankroll *)

C35_WitnessDrained ==
    /\ ~ShadowPosition_is_active(shadow)
    /\ shadow.bankroll_usd < One
    /\ shadow.bankroll_usd > 0
    /\ shadow.realized_usd < -3 * One

-----------------------------------------------------------------------------
(* Claims about the signal pipeline *)

\* C36: after every processed 5-second close the signal engine holds an
\* active side exactly when the shadow position is active, and on the
\* matching side (Long with the YES token, Short with the NO token).
C36_EngineAndPositionAgree ==
    call # None =>
        /\ signal_engine.active_position # None <=> ShadowPosition_is_active(shadow)
        /\ signal_engine.active_position = Some("Long") <=> shadow.token_side = Some("Yes")
        /\ signal_engine.active_position = Some("Short") <=> shadow.token_side = Some("No")

\* the entry filter dropped the entry the engine returned: the engine holds a
\* Long while the shadow position is flat
C36_EngineHoldsBlockedEntry ==
    /\ call # None
    /\ call[1].signal.entry = "Long"
    /\ call[1].passed.entry = "None"
    /\ signal_engine.active_position = Some("Long")
    /\ ~ShadowPosition_is_active(shadow)

\* the engine returned FullExit while the held token had no bid: the engine
\* is flat while the shadow position is still open
C36_PositionOutlivesExit ==
    /\ call # None
    /\ call[1].signal.exit = "FullExit"
    /\ call[1].shadow.entry_price > 0
    /\ shadow = call[1].shadow
    /\ ShadowPosition_is_active(shadow)
    /\ signal_engine.active_position = None

\* an entry that passes the filter and the gates of handle_shadow_signals
\* leaves the two in agreement
C36_TakenEntryAgrees ==
    (call # None /\ ~ShadowPosition_is_active(call[1].shadow) /\ shadow.entry_price > 0) =>
        /\ signal_engine.active_position = shadow.active_entry
        /\ shadow.token_side = Some(IF shadow.active_entry = Some("Long") THEN "Yes" ELSE "No")

-----------------------------------------------------------------------------
(* Claims about the ValidationTracker *)

RECURSIVE SumTrades(_)
SumTrades(markets) ==
    IF markets = <<>> THEN 0 ELSE markets[1].trades + SumTrades(Tail(markets))

\* C37: in every state of a ValidationTracker the number of MarketRecords
\* equals completed_markets and the number of session trades equals the sum
\* of the trade counts of all MarketRecords plus the number of trades in
\* progress; the trade list and the market list only grow at their ends;
\* finalize_market empties the in-progress list and adds exactly 1 to
\* completed_markets.
C37_TrackerBookkeeping ==
    /\ [](validator # None =>
             /\ Len(validator[1].markets) = validator[1].completed_markets
             /\ Len(validator[1].trades) =
                   SumTrades(validator[1].markets) + Len(validator[1].current_market_trades))
    /\ [](rolled # None /\ rolled[1].before.validator # None =>
             /\ rolled[1].settled.validator[1].current_market_trades = <<>>
             /\ rolled[1].settled.validator[1].completed_markets =
                   rolled[1].before.validator[1].completed_markets + 1
             /\ validator[1].completed_markets =
                   rolled[1].before.validator[1].completed_markets + 1)
    /\ [][validator # None =>
             /\ IsPrefix(validator[1].trades, validator'[1].trades)
             /\ IsPrefix(validator[1].markets, validator'[1].markets)
             /\ validator'[1].completed_markets \in
                   {validator[1].completed_markets, validator[1].completed_markets + 1}
             /\ rolled' = None => validator'[1].completed_markets = validator[1].completed_markets]_vars

\* two markets are finalized with one trade each and the third market has a
\* trade in progress
C37_Witness ==
    /\ validator # None
    /\ validator[1].completed_markets = 2
    /\ validator[1].markets[1].trades = 1
    /\ validator[1].markets[2].trades = 1
    /\ Len(validator[1].current_market_trades) = 1
    /\ Len(validator[1].trades) = 3

-----------------------------------------------------------------------------
(* Claims about the open shadow position *)

\* C40: whenever the shadow position is active it holds one position of size
\* 1.0 and stake 1.0 USD on the token of its entry signal, with an entry
\* price within [0.35, 0.65]; and between two rollovers a step that finds
\* the position active and leaves it active leaves it as it was, so no entry
\* replaces or adds to an active position.
C40_OnePositionOfUnitStakeInRange ==
    /\ [](ShadowPosition_is_active(shadow) =>
             /\ shadow.size = One
             /\ shadow.position_size_usd = One
             /\ shadow.entry_price >= 350
             /\ shadow.entry_price <= 650
             /\ shadow.active_entry =
                   Some(IF shadow.token_side = Some("Yes") THEN "Long" ELSE "Short"))
    /\ [][(ShadowPosition_is_active(shadow) /\ ShadowPosition_is_active(shadow') /\ rolled' = None)
             => shadow' = shadow]_vars

\* a Short held at the NO ask of 0.35 is left as it was by a Long signal that
\* passes the entry filter at the YES ask of 0.65
C40_Witness ==
    /\ call # None
    /\ call[1].signal.entry = "Long"
    /\ call[1].passed.entry = "Long"
    /\ call[1].book.yes.best_ask = Some(650)
    /\ call[1].shadow.token_side = Some("No")
    /\ call[1].shadow.entry_price = 350
    /\ shadow = call[1].shadow

\* a Long is taken at the YES ask of 0.65
C40_WitnessAtTheTop ==
    /\ ShadowPosition_is_active(shadow)
    /\ shadow.token_side = Some("Yes")
    /\ shadow.entry_price = 650

\* an entry signal with the ask at 0.66 is dropped by the filter
C40_WitnessOutOfRange ==
    /\ call # None
    /\ call[1].signal.entry = "Long"
    /\ call[1].book.yes.best_ask = Some(660)
    /\ call[1].passed.entry = "None"
    /\ ~ShadowPosition_is_active(call[1].shadow)
    /\ ~ShadowPosition_is_active(shadow)

====
